---- MODULE Spec2Model ----
(***************************************************************************)
(* State-machine model of config_guard's AppConfig facade                  *)
(* (src/src/config_guard/config.py) together with the components it owns:  *)
(* LockGuard (locks.py), ConfigStore (store/manager.py), IntegrityGuard    *)
(* (integrity.py), HookBus (hooks.py), and the parameter registry          *)
(* (params/registry.py, params/spec.py).                                   *)
(*                                                                         *)
(* One AppConfig instance is modelled.  Every public method is one action; *)
(* a temp_update block is two actions (entering the block and leaving it)  *)
(* because arbitrary calls of the same thread run in between.              *)
(***************************************************************************)
EXTENDS Integers, Sequences, FiniteSets, TLC

(***************************************************************************)
(* Bounds of the model.                                                    *)
(***************************************************************************)
\* largest number of key/value pairs in one update / use_once / restore batch
MaxBatch == 2
\* deepest nesting of temp_update blocks
MaxDepth == 2
\* largest number of registered post-update hooks
MaxHooks == 2
\* teardown() calls are counted up to this number
MaxTeardowns == 2
\* on_violation calls of the checker are counted up to this number
MaxReports == 2
\* largest number of items in a list or a set
MaxItems == 2
\* threads that call into one instance next to the main thread
MaxThreads == 2

(***************************************************************************)
(* Python values.  A value carries its exact runtime type and its numeric  *)
(* content; bool is a subclass of int, True == 1 and False == 0.           *)
(***************************************************************************)
IntVal(n) == [type |-> "int", num |-> n]
BoolVal(b) == [type |-> "bool", num |-> IF b THEN 1 ELSE 0]
\* a float with a whole value, such as 5.0
FloatVal(n) == [type |-> "float", num |-> n]
\* a str
StrVal(s) == [type |-> "str", num |-> 0, text |-> s]
\* Python's None
NoneVal == [type |-> "NoneType", num |-> 0]

\* a list or a set: a mutable object, known by its content and by who holds
\* this very object (the caller, the store, the integrity guard's snapshot,
\* or whoever got it from get)
Container(type, items, owner) ==
    [type |-> type, num |-> 0, items |-> items, owner |-> owner]
\* a tuple of numbers: immutable, so its content is all there is to it
TupleVal(items) == [type |-> "tuple", num |-> 0, items |-> items]

\* the value is an object that can be changed in place
Mutable(v) == v.type \in {"list", "set"}

\* the values callers pass in this model: two ints and a bool
Values == {IntVal(10), IntVal(500), BoolVal(TRUE)}

\* isinstance(value, value_type): exact type or a subclass (bool <: int)
IsInstance(v, types) ==
    \/ v.type \in types
    \/ v.type = "bool" /\ "int" \in types

\* isinstance(value, (int, float))
IsNumeric(v) == v.type \in {"int", "bool", "float"}

\* Optional[...] : None is the empty tuple, a present value x is <<x>>
None == <<>>
Some(x) == <<x>>

\* the empty dict
EmptyDict == [k \in {} |-> NoneVal]

\* the empty dict of names
EmptyNames == [k \in {} |-> ""]

\* d[k] = v on a dict modelled as a function
DictSet(d, k, v) == [x \in (DOMAIN d) \cup {k} |-> IF x = k THEN v ELSE d[x]]

\* d.pop(k)
DictDel(d, k) == [x \in (DOMAIN d) \ {k} |-> d[x]]

(***************************************************************************)
(* The parameters that get registered: MAX_CONCURRENCY int in [1, 1000]    *)
(* default 10 and VERIFY bool default True (tests/conftest.py), and        *)
(* REQUEST_TIMEOUT int or float in [0.1, 60.0] default 5.0 that requires a *)
(* reason (examples/basic_usage.py).                                       *)
(***************************************************************************)
BoundLo == 1
BoundHi == 1000
DefaultConcurrency == 10
\* every number in this model is whole, and for whole numbers the lower bound
\* 0.1 of REQUEST_TIMEOUT is the lower bound 1
TimeoutLo == 1
TimeoutHi == 60
DefaultTimeout == 5

ParamSpecs ==
    [MAX_CONCURRENCY |->
        [name |-> "MAX_CONCURRENCY", default |-> IntVal(DefaultConcurrency),
         value_type |-> {"int"}, bounds |-> Some(<<BoundLo, BoundHi>>),
         allow_none |-> TRUE, require_reason |-> FALSE],
     VERIFY |->
        [name |-> "VERIFY", default |-> BoolVal(TRUE),
         value_type |-> {"bool"}, bounds |-> None,
         allow_none |-> TRUE, require_reason |-> FALSE],
     REQUEST_TIMEOUT |->
        [name |-> "REQUEST_TIMEOUT", default |-> FloatVal(DefaultTimeout),
         value_type |-> {"int", "float"}, bounds |-> Some(<<TimeoutLo, TimeoutHi>>),
         allow_none |-> TRUE, require_reason |-> TRUE]]

\* a parameter that holds a collection (tests/test_store.py): a list, the
\* tuple the store makes of it, or a set
FruitSpec ==
    [name |-> "FRUIT_LIST", default |-> TupleVal(<<>>),
     value_type |-> {"list", "tuple", "set"}, bounds |-> None,
     allow_none |-> TRUE, require_reason |-> FALSE]

\* canonical names in sorted order (ParamRegistry.all_names, sorted(keys))
KeyOrder == <<"FRUIT_LIST", "MAX_CONCURRENCY", "REQUEST_TIMEOUT", "VERIFY">>

\* the names the conftest registry registers
CanonicalKeys == {"MAX_CONCURRENCY", "VERIFY"}

\* the keys callers pass: the canonical names and a name nobody registered
RawKeys == {"MAX_CONCURRENCY", "VERIFY", "UNKNOWN_KEY"}

\* every spelling of a key or an alias that callers pass
Spellings ==
    RawKeys \cup {"REQUEST_TIMEOUT", "max_concurrency", "verify", " Verify ",
                  "request_timeout", "timeout", " timeout"}

\* str.strip() on these spellings
Strip(s) ==
    CASE s = " Verify " -> "Verify"
      [] s = " timeout" -> "timeout"
      [] OTHER -> s

\* str.upper() on the stripped spellings
Upper(s) ==
    CASE s = "Verify" -> "VERIFY"
      [] s = "verify" -> "VERIFY"
      [] s = "max_concurrency" -> "MAX_CONCURRENCY"
      [] s = "request_timeout" -> "REQUEST_TIMEOUT"
      [] s = "timeout" -> "TIMEOUT"
      [] OTHER -> s

\* ParamRegistry._canon
Canon(name) == Upper(Strip(name))

\* REGISTRY._specs with these parameters registered under their names
SpecsOf(names) == [k \in names |-> ParamSpecs[k]]

\* REGISTRY._aliases after conftest's registrations: the alias of each
\* parameter is its own name in lower case
OwnAliases(names) == [k \in names |-> k]

\* the registries an instance can be constructed against: nothing registered,
\* or the two parameters of conftest
Registries == {{}, CanonicalKeys}

\* reasons a caller passes to update / use_once
Reasons == {"", "because"}

\* the specs passed to register
RegSpecs == {ParamSpecs[k] : k \in DOMAIN ParamSpecs}

\* the alias tuples passed to register: up to two of these spellings
AliasSpellings == {"verify", "request_timeout", "timeout"}
AliasTuples ==
    {<<>>} \cup {<<a>> : a \in AliasSpellings}
           \cup {t \in AliasSpellings \X AliasSpellings : t[1] # t[2]}

VARIABLES
    specs,          \* REGISTRY._specs: canonical name -> ParamSpec
    aliases,        \* REGISTRY._aliases: canonicalized alias -> canonical name
    resolve_cache,  \* the lru_cache of resolve_param_name: key -> name
    bypass_env,     \* os.getenv("ALLOW_CONFIG_BYPASS") == "1"
    constructed,    \* AppConfig.__init__ has returned
    mutable_types,  \* ConfigStore._mutable_types
    torn_down,      \* AppConfig.__torn_down
    locked,         \* LockGuard._locked
    config,         \* ConfigStore._config, the permanent layer
    use_once,       \* ConfigStore._use_once, the ephemeral layer
    last_snapshot,  \* IntegrityGuard._last_snapshot
    last_checksum,  \* IntegrityGuard._last_checksum
    hooks,          \* HookBus._hooks: the registered callables in order
    hook_seen,      \* the calls of the last hook run: None or Some(calls)
    meta,           \* last_modified_by / _at / last_change_reason
    temp_stack,     \* active temp_update blocks, innermost first
    teardown_calls, \* history: completed teardown() calls, counted up to a cap
    last,           \* the last call made and how it ended
    checker,        \* the thread of IntegrityGuard.start_checker: where it is
    stop_event,     \* IntegrityGuard._stop_event is set
    teardown_pc,    \* where the caller of teardown() is inside it
    polled,         \* what the checker's last verify() returned: None or Some
    reports,        \* history: on_violation calls of the checker, up to a cap
    caller_obj,     \* the caller's own list and set: kind -> items
    checksums,      \* the last two mappings checksummed, and their checksums
    waiting,        \* another thread's call that waits for the instance lock
    threads,        \* further threads: where each is in its call, what it got
    outer_call,     \* the main thread's call that is running its hooks
    writer,         \* the register or clear call on REGISTRY that is under way
    reader          \* a thread that reads REGISTRY: where it is, what it got

vars == <<specs, aliases, resolve_cache, bypass_env, constructed, mutable_types, torn_down, locked,
          config, use_once, last_snapshot, last_checksum, hooks, hook_seen,
          meta, temp_stack, teardown_calls, last, checker, stop_event,
          teardown_pc, polled, reports, caller_obj, checksums, waiting,
          threads, outer_call, writer, reader>>

\* the background checker and the progress of a teardown() call
checker_vars == <<checker, stop_event, teardown_pc, polled, reports>>

(***************************************************************************)
(* utils.py                                                                *)
(***************************************************************************)
\* _require_bypass_env(): the out-of-band authorization signal
RequireBypassEnv == bypass_env

\* repr() of a set of numbers: the text "{1, 2}"
ReprOf(v) == <<"{", v.items, "}">>

\* json.dumps of one value: true/false literals, numbers, strings, null, a
\* list and a tuple alike as an array; a set is not JSON and is written as
\* the string of its repr()
JsonOf(v) ==
    IF v.type = "bool" THEN <<"literal", v.num>>
    ELSE IF v.type = "int" THEN <<"number", v.num>>
    ELSE IF v.type = "float" THEN <<"real", v.num>>
    ELSE IF v.type = "str" THEN <<"string", v.text>>
    ELSE IF v.type \in {"list", "tuple"} THEN <<"array", v.items>>
    ELSE IF v.type = "set" THEN <<"string", ReprOf(v)>>
    ELSE <<"null", 0>>

\* a faulty _immutable_copy that hands back the object it was given
ImmutableCopyShared(value) == value

\* _immutable_copy: a list becomes a tuple of its items, anything else is
\* deep-copied, which for a mutable object makes a new object of the store's
\* own and for an immutable value changes nothing
ImmutableCopy(value) ==
    IF value.type = "list" THEN TupleVal(value.items)
    ELSE IF Mutable(value) THEN Container(value.type, value.items, "store")
    ELSE value

\* copy.deepcopy: a mutable object is copied into a new object that belongs
\* to the one who asked
DeepCopy(value, owner) ==
    IF Mutable(value) THEN Container(value.type, value.items, owner) ELSE value

\* _stable_serialize_for_checksum: the entries in sorted key order
StableSerialize(data) ==
    LET present == SelectSeq(KeyOrder, LAMBDA k : k \in DOMAIN data)
    IN  [i \in 1..Len(present) |-> <<present[i], JsonOf(data[present[i]])>>]

\* the place of a key in sorted(data.keys(), key=repr)
KeyRank(k) == CHOOSE i \in 1..Len(KeyOrder) : KeyOrder[i] = k

\* a key put into an ascending sequence of keys
RECURSIVE Insert(_, _)
Insert(k, ks) ==
    IF ks = <<>> THEN <<k>>
    ELSE IF KeyRank(k) <= KeyRank(Head(ks)) THEN <<k>> \o ks
    ELSE <<Head(ks)>> \o Insert(k, Tail(ks))

\* sorted(data.keys(), key=repr) of a dict given as its items in insertion
\* order
RECURSIVE SortedKeys(_)
SortedKeys(items) ==
    IF items = <<>> THEN <<>>
    ELSE Insert(Head(items)[1], SortedKeys(Tail(items)))

\* data[key] of a dict given as its items
ItemAt(items, key) == items[CHOOSE i \in 1..Len(items) : items[i][1] = key][2]

\* _stable_serialize_for_checksum of a dict given as its items in insertion
\* order: one entry per key, in sorted key order
StableSerializeDict(items) ==
    LET ks == SortedKeys(items)
    IN  [i \in 1..Len(ks) |-> <<ks[i], JsonOf(ItemAt(items, ks[i]))>>]

\* _checksum_of_config of a dict given as its items in insertion order
ChecksumOfDict(items) == <<"sha256", StableSerializeDict(items)>>

\* _checksum_of_config: the digest of the serialization (collision-free)
ChecksumOfConfig(snapshot) == <<"sha256", StableSerialize(snapshot)>>

(***************************************************************************)
(* integrity.py                                                            *)
(***************************************************************************)
\* os.getenv("CONFIG_HMAC_KEY", ""): no sealing key is set in the environment
HmacKey == ""

\* IntegrityGuard.seal_checksum: unchanged without a key, else its HMAC
SealChecksum(checksum) ==
    IF HmacKey = "" THEN checksum ELSE <<"hmac", HmacKey, checksum>>

\* IntegrityGuard.update_snapshot: the pair (snapshot, checksum) it stores
UpdateSnapshot(snapshot) ==
    [last_snapshot |-> Some([k \in DOMAIN snapshot |->
                                DeepCopy(snapshot[k], "sealed")]),
     last_checksum |-> Some(SealChecksum(ChecksumOfConfig(snapshot)))]

\* IntegrityGuard.verify on a given (snapshot, checksum) pair
VerifyPair(snap, cksum) ==
    IF snap = None \/ cksum = None THEN FALSE
    ELSE IF DOMAIN snap[1] = {} THEN FALSE
    ELSE SealChecksum(ChecksumOfConfig(snap[1])) = cksum[1]

\* IntegrityGuard.verify in the current state
Verify == VerifyPair(last_snapshot, last_checksum)

(***************************************************************************)
(* params/registry.py, params/spec.py                                      *)
(***************************************************************************)
\* the lookup of a canonicalized key: the canonical names first, then the
\* aliases
Lookup(k) ==
    IF k \in DOMAIN specs THEN Some(k)
    ELSE IF k \in DOMAIN aliases THEN Some(aliases[k])
    ELSE None

\* ParamRegistry._resolve_key: Some(canonical name), the canonical match
\* before the alias match, or None for the miss path that raises
\* ConfigNotFoundError
ResolveKey(key) == Lookup(Canon(key))

\* resolve_param_name: the lru_cache answers for a key it has seen, else the
\* registry is asked
ResolveParamName(key) ==
    IF key \in DOMAIN resolve_cache THEN Some(resolve_cache[key])
    ELSE ResolveKey(key)

\* the lru_cache after resolve_param_name has been called with these keys: a
\* result is stored the first time a key resolves, a miss is not stored
Remember(keys) ==
    [k \in DOMAIN resolve_cache \cup {x \in keys : ResolveKey(x) # None} |->
        IF k \in DOMAIN resolve_cache THEN resolve_cache[k] ELSE ResolveKey(k)[1]]

\* REGISTRY.get on an already resolved key
SpecOf(resolved) == IF resolved = None THEN None ELSE Some(specs[resolved[1]])

\* get_param_spec: the spec stored under the canonicalized key, else the
\* spec the registry resolves the key to; None when it raises
GetParamSpec(key) ==
    IF Canon(key) \in DOMAIN specs THEN Some(specs[Canon(key)])
    ELSE SpecOf(ResolveKey(key))

\* the tuple resolve_and_get returns for a name and the spec found for it
NameAndSpec(name, spec) ==
    IF spec = None THEN None ELSE Some([name |-> name, spec |-> spec[1]])

\* resolve_and_get once resolve_param_name has answered
GetResolved(name) ==
    IF name = None THEN None ELSE NameAndSpec(name[1], GetParamSpec(name[1]))

\* resolve_and_get: Some of the resolved name and its spec, or None
ResolveAndGet(key) == GetResolved(ResolveParamName(key))

\* the canonicalized key of a name that resolve_param_name has answered
FailedKey(key, name) == IF name = None THEN Canon(key) ELSE Canon(name[1])

\* the key of the mapping of the ConfigNotFoundError that resolve_and_get
\* raises: the canonicalized key that the registry failed to resolve
NotFoundKey(key) == FailedKey(key, ResolveParamName(key))

\* a faulty _bounds_check whose interval is open
BoundsCheckExclusive(spec, v) ==
    IF spec.bounds # None /\ IsNumeric(v)
    THEN spec.bounds[1][1] < v.num /\ v.num < spec.bounds[1][2]
    ELSE TRUE

\* ParamSpec._bounds_check
BoundsCheck(spec, v) ==
    IF spec.bounds # None /\ IsNumeric(v)
    THEN spec.bounds[1][1] <= v.num /\ v.num <= spec.bounds[1][2]
    ELSE TRUE

\* ParamSpec.validate: TRUE when it returns, FALSE when it raises
\* ConfigValidationError
SpecValidate(spec, v) ==
    IF v = NoneVal THEN spec.allow_none
    ELSE IF ~IsInstance(v, spec.value_type) THEN FALSE
    ELSE BoundsCheck(spec, v)

(***************************************************************************)
(* validation/base.py                                                      *)
(***************************************************************************)
\* validate_value once the name is resolved and the spec fetched
ValidateFound(key, found, v) ==
    IF found = None
    THEN [err |-> "ConfigNotFoundError", detail |-> {NotFoundKey(key)}]
    ELSE IF ~SpecValidate(found[1].spec, v)
         THEN [err |-> "ConfigValidationError", detail |-> {found[1].spec.name}]
    ELSE [err |-> "ok", detail |-> {}]

\* ConfigValidator.validate_value: the error raised ("ok" for none) and the
\* keys of its error mapping, which ParamSpec.validate names after spec.name
ValidateValue(key, v) == ValidateFound(key, ResolveAndGet(key), v)

(***************************************************************************)
(* locks.py                                                                *)
(***************************************************************************)
\* a faulty ensure_unlocked that forgets the lock and only looks at the bypass
EnsureUnlockedIgnoringLock(bypass) ==
    IF bypass /\ ~RequireBypassEnv THEN "ConfigBypassError" ELSE "ok"

\* LockGuard.ensure_unlocked: "ok" or the error it raises
EnsureUnlocked(bypass) ==
    IF locked /\ ~bypass THEN "ConfigLockedError"
    ELSE IF bypass /\ ~RequireBypassEnv THEN "ConfigBypassError"
    ELSE "ok"

(***************************************************************************)
(* store/manager.py                                                        *)
(***************************************************************************)
\* ConfigStore._check_type: TRUE when the write keeps the type stable
CheckType(cfg, name, v, spec, mutable) ==
    IF name \in DOMAIN cfg /\ ~mutable
    THEN v.type \in (spec.value_type \cup {cfg[name].type})
    ELSE TRUE

\* ConfigStore._check_bounds: TRUE when it returns
CheckBounds(spec, v) ==
    IF spec.bounds = None THEN TRUE
    ELSE ~(IsNumeric(v) /\ ~(spec.bounds[1][1] <= v.num /\ v.num <= spec.bounds[1][2]))

\* the layers as they are, with the error raised and the keys of its mapping
Kept(e, d, cfg, once) == [err |-> e, detail |-> d, config |-> cfg, use_once |-> once]

\* ConfigStore.set after resolve_and_get: the reason, type, bounds and
\* validate checks, then the write to the target layer
SetChecked(cfg, once, name, spec, v, permanent, reason, mutable) ==
    IF spec.require_reason /\ reason = "" THEN Kept("ValueError", {}, cfg, once)
    ELSE IF ~CheckType(cfg, name, v, spec, mutable)
         THEN Kept("ValueError", {}, cfg, once)
    ELSE IF ~CheckBounds(spec, v) THEN Kept("ValueError", {}, cfg, once)
    ELSE IF ~SpecValidate(spec, v)
         THEN Kept("ConfigValidationError", {spec.name}, cfg, once)
    ELSE IF permanent THEN Kept("ok", {}, DictSet(cfg, name, v), once)
    ELSE Kept("ok", {}, cfg, DictSet(once, name, v))

\* ConfigStore.set given what resolve_and_get found
SetFound(cfg, once, key, found, v, permanent, reason, mutable) ==
    IF found = None THEN Kept("ConfigNotFoundError", {NotFoundKey(key)}, cfg, once)
    ELSE SetChecked(cfg, once, found[1].name, found[1].spec, ImmutableCopy(v),
                    permanent, reason, mutable)

\* ConfigStore.set on the layers (cfg, once): the error raised ("ok" for
\* none), the keys of its error mapping, and the layers afterwards
StoreSet(cfg, once, key, v, permanent, reason, mutable) ==
    SetFound(cfg, once, key, ResolveAndGet(key), v, permanent, reason, mutable)

\* a faulty get that serves the pending one-time value without removing it
StoreGetKeeping(cfg, once, name, default) ==
    [ret |-> IF name \in DOMAIN once THEN once[name]
             ELSE IF name \in DOMAIN cfg THEN cfg[name] ELSE default,
     use_once |-> once]

\* ConfigStore.get on the layers (cfg, once): a pending one-time value is
\* popped and served, else the permanent value or the default
StoreGet(cfg, once, name, default) ==
    IF name \in DOMAIN once
    THEN [ret |-> DeepCopy(once[name], "got"), use_once |-> DictDel(once, name)]
    ELSE [ret |-> DeepCopy(IF name \in DOMAIN cfg THEN cfg[name] ELSE default,
                           "got"),
          use_once |-> once]

\* a faulty restore that writes the values over the permanent layer and keeps
\* the entries the values do not mention
StoreRestoreMerging(values) ==
    [config |-> [k \in DOMAIN config \cup DOMAIN values |->
                    IF k \in DOMAIN values THEN values[k] ELSE config[k]],
     use_once |-> EmptyDict]

\* a faulty restore that leaves the ephemeral layer alone
StoreRestoreKeepingOnce(values) == [config |-> values, use_once |-> use_once]

\* ConfigStore.restore: the permanent layer is replaced, the ephemeral cleared
StoreRestore(values) ==
    [config |-> [k \in DOMAIN values |-> ImmutableCopy(values[k])],
     use_once |-> EmptyDict]

\* a dict given as a sequence of <<key, value>> items, as a function
RECURSIVE DictOf(_)
DictOf(items) ==
    IF items = <<>> THEN EmptyDict
    ELSE LET n == Len(items)
         IN  DictSet(DictOf(SubSeq(items, 1, n - 1)), items[n][1], items[n][2])

(***************************************************************************)
(* config.py: the helpers of AppConfig                                     *)
(***************************************************************************)
\* the metadata after a change / after teardown and construction
MetaSet(reason) == [by |-> Some("caller"), at |-> Some("now"), reason |-> Some(reason)]
MetaCleared == [by |-> None, at |-> None, reason |-> None]

\* the hooks callers register: one that only reads the dict it is given, one
\* that empties it and one that raises (hook bodies are arbitrary user code)
HookKinds == {"observe", "scrub", "fail"}

\* the dict a hook leaves behind in the caller's hands
HookBody(kind, snapshot) == IF kind = "scrub" THEN EmptyDict ELSE snapshot

\* the hook raises an exception
HookRaises(kind) == kind = "fail"

\* the failure policies of a HookBus, and the one AppConfig builds its bus
\* with: HookBus() takes the default
FailureModes == {"ignore", "log", "raise"}
FailureMode == "ignore"

\* a call of one hook followed by the rest of the run
HookCalled(hook, snapshot, rest) ==
    [calls |-> <<[hook |-> hook, got |-> snapshot]>> \o rest.calls,
     err |-> rest.err]

\* a faulty run that gives up at the first hook that raises, whatever the
\* policy, and swallows the exception
RECURSIVE HookBusRunAborting(_, _, _)
HookBusRunAborting(hs, mode, snapshot) ==
    IF hs = <<>> THEN [calls |-> <<>>, err |-> "ok"]
    ELSE IF HookRaises(Head(hs))
    THEN HookCalled(Head(hs), snapshot, [calls |-> <<>>, err |-> "ok"])
    ELSE HookCalled(Head(hs), snapshot,
                    HookBusRunAborting(Tail(hs), mode,
                                       HookBody(Head(hs), snapshot)))

\* HookBus.run: each hook in list order is called with the one dict object
\* run was given, in the state the hooks before it left it; an exception of a
\* hook propagates under the policy raise and is swallowed under ignore and log
RECURSIVE HookBusRun(_, _, _)
HookBusRun(hs, mode, snapshot) ==
    IF hs = <<>> THEN [calls |-> <<>>, err |-> "ok"]
    ELSE IF HookRaises(Head(hs)) /\ mode = "raise"
    THEN HookCalled(Head(hs), snapshot, [calls |-> <<>>, err |-> "HookError"])
    ELSE HookCalled(Head(hs), snapshot,
                    HookBusRun(Tail(hs), mode, HookBody(Head(hs), snapshot)))

\* self.__hooks.run(snapshot): the calls the hooks have received after a run
\* with this snapshot; under the policy of AppConfig's bus run never raises
HooksRun(snapshot) ==
    IF hooks # <<>> THEN Some(HookBusRun(hooks, FailureMode, snapshot).calls)
    ELSE hook_seen

\* resolved[param] = value on an insertion-ordered dict of items
ItemPut(items, k, v) ==
    IF \E i \in 1..Len(items) : items[i][1] = k
    THEN [i \in 1..Len(items) |-> IF items[i][1] = k THEN <<k, v>> ELSE items[i]]
    ELSE Append(items, <<k, v>>)

\* what _validate_and_resolve raises or returns
Raised(err, detail, touched) ==
    [err |-> err, detail |-> detail, resolved |-> <<>>, touched |-> touched]

\* the loop of _validate_and_resolve over the rest of the batch: a key that
\* does not resolve raises at once, the validation failures are collected, and
\* every name passed to resolve_param_name is noted
RECURSIVE ResolveLoop(_, _, _, _, _)

\* one item of the loop after validate_value has run (or was skipped)
ResolveChecked(batch, bypass, resolved, errors, seen, name, checked) ==
    IF checked.err = "ConfigNotFoundError"
    THEN Raised("ConfigNotFoundError", checked.detail, seen)
    ELSE IF checked.err # "ok"
    THEN ResolveLoop(Tail(batch), bypass, resolved, errors \cup checked.detail, seen)
    ELSE ResolveLoop(Tail(batch), bypass,
                     ItemPut(resolved, name, ImmutableCopy(batch[1][2])),
                     errors, seen)

\* one item of the loop after resolve_param_name(k) has answered
ResolveItem(batch, bypass, resolved, errors, touched, param) ==
    IF param = None
    THEN Raised("ConfigNotFoundError", {Canon(batch[1][1])},
                touched \cup {batch[1][1]})
    ELSE ResolveChecked(batch, bypass, resolved, errors,
                        touched \cup {batch[1][1]}
                                \cup (IF bypass THEN {} ELSE {param[1]}),
                        param[1],
                        IF bypass THEN [err |-> "ok", detail |-> {}]
                        ELSE ValidateValue(param[1], batch[1][2]))

ResolveLoop(batch, bypass, resolved, errors, touched) ==
    IF batch = <<>>
    THEN IF errors # {}
         THEN Raised("ConfigValidationError", errors, touched)
         ELSE [err |-> "ok", detail |-> {}, resolved |-> resolved,
               touched |-> touched]
    ELSE ResolveItem(batch, bypass, resolved, errors, touched,
                     ResolveParamName(batch[1][1]))

\* AppConfig._validate_and_resolve
ValidateAndResolve(batch, bypass) == ResolveLoop(batch, bypass, <<>>, {}, {})

\* the loop of _apply_changes: store.set for each item, stopping at the first
\* one that raises
RECURSIVE ApplySets(_, _, _, _, _)

\* the loop of _apply_changes after store.set has run for the first item
ApplyNext(r, changes, permanent, seen) ==
    IF r.err # "ok"
    THEN [err |-> r.err, detail |-> r.detail, config |-> r.config,
          use_once |-> r.use_once, touched |-> seen]
    ELSE ApplySets(r.config, r.use_once, Tail(changes), permanent, seen)

ApplySets(cfg, once, changes, permanent, touched) ==
    IF changes = <<>>
    THEN [err |-> "ok", detail |-> {}, config |-> cfg, use_once |-> once,
          touched |-> touched]
    ELSE ApplyNext(StoreSet(cfg, once, changes[1][1], changes[1][2], permanent, "",
                            mutable_types),
                   changes, permanent, touched \cup {changes[1][1]})

\* the state components a call leaves behind
Outcome(err, cfg, once, snap, cksum, m, seen) ==
    [err |-> err, config |-> cfg, use_once |-> once, last_snapshot |-> snap,
     last_checksum |-> cksum, meta |-> m, hook_seen |-> seen,
     detail |-> {}, touched |-> {}]

\* an outcome together with the keys of the raised error's mapping and the
\* names the call has passed to resolve_param_name
Noted(out, detail, touched) == [out EXCEPT !.detail = detail, !.touched = touched]

\* the current state with the error a call raised before touching anything
Untouched(err) ==
    Outcome(err, config, use_once, last_snapshot, last_checksum, meta, hook_seen)

\* _apply_changes after its loop: the metadata, the reseal and the hooks
Applied(r, seal, reason) ==
    IF r.err # "ok"
    THEN Noted(Outcome(r.err, r.config, r.use_once, last_snapshot,
                       last_checksum, meta, hook_seen),
               r.detail, r.touched)
    ELSE Noted(Outcome("ok", r.config, r.use_once, seal.last_snapshot,
                       seal.last_checksum, MetaSet(reason), HooksRun(r.config)),
               {}, r.touched)

\* the reseal of _apply_changes
Sealed(r, reason) == Applied(r, UpdateSnapshot(r.config), reason)

\* AppConfig._apply_changes
ApplyChanges(changes, permanent, reason) ==
    Sealed(ApplySets(config, use_once, changes, permanent, {}), reason)

\* the outcome of the commit that follows a successful _validate_and_resolve,
\* or of the failure of _validate_and_resolve
Resolved(vr, out) ==
    IF vr.err # "ok" THEN Noted(Untouched(vr.err), vr.detail, vr.touched)
    ELSE Noted(out, out.detail, out.touched \cup vr.touched)

(***************************************************************************)
(* The inputs of the calls.                                                *)
(***************************************************************************)
\* keyword arguments in call order: up to MaxBatch items with distinct keys
\* among keys and values among vals
BatchesOf(keys, vals) ==
    UNION {{b \in [1..n -> keys \X vals] :
               \A i, j \in 1..n : i # j => b[i][1] # b[j][1]} : n \in 0..MaxBatch}

\* keyword arguments in call order: up to MaxBatch items with distinct
\* registered keys and values among vals, or the unregistered key alone
BatchesOver(vals) ==
    UNION {{b \in [1..n -> CanonicalKeys \X vals] :
               \A i, j \in 1..n : i # j => b[i][1] # b[j][1]} : n \in 0..MaxBatch}
    \cup {<<<<"UNKNOWN_KEY", IntVal(10)>>>>}

Batches == BatchesOver(Values)

\* initial_values of the constructor: nothing, or one parameter overridden
InitialValues ==
    {EmptyDict} \cup {DictSet(EmptyDict, "MAX_CONCURRENCY", v) : v \in Values}

\* the record of a call: its name, "ok" or the error it raised, what it returned
\* and, for a raised error that carries a mapping, the keys of the mapping
Call(op, res, ret) == [op |-> op, res |-> res, ret |-> ret, detail |-> {}]

\* the threads next to the main thread, and a thread before its call
Threads == 1..MaxThreads

IdleThread ==
    [pc |-> "idle", op |-> "", key |-> "", default |-> NoneVal, batch |-> <<>>,
     res |-> "", ret |-> NoneVal, out |-> None]

\* the thread that reads the registry, before its call
IdleReader == [pc |-> "idle", key |-> "", res |-> ""]

(***************************************************************************)
(* Initial state: the process before AppConfig(...) is called.             *)
(***************************************************************************)
Init ==
    /\ \E names \in Registries :
          specs = SpecsOf(names) /\ aliases = OwnAliases(names)
    /\ resolve_cache = EmptyNames
    /\ bypass_env \in BOOLEAN
    /\ constructed = FALSE
    /\ mutable_types = FALSE
    /\ torn_down = FALSE
    /\ locked = FALSE
    /\ config = EmptyDict
    /\ use_once = EmptyDict
    /\ last_snapshot = None
    /\ last_checksum = None
    /\ hooks = <<>>
    /\ hook_seen = None
    /\ meta = MetaCleared
    /\ temp_stack = <<>>
    /\ teardown_calls = 0
    /\ last = Call("start", "ok", NoneVal)
    /\ checker = "none"
    /\ stop_event = FALSE
    /\ teardown_pc = "idle"
    /\ polled = None
    /\ reports = 0
    /\ caller_obj = [list |-> <<>>, set |-> <<>>]
    /\ checksums = None
    /\ waiting = None
    /\ threads = [t \in Threads |-> IdleThread]
    /\ outer_call = None
    /\ writer = None
    /\ reader = IdleReader

\* the environment variable ALLOW_CONFIG_BYPASS is set or removed
SetEnv(b) ==
    /\ bypass_env # b
    /\ bypass_env' = b
    /\ last' = Call("setenv", "ok", NoneVal)
    /\ UNCHANGED checker_vars
    /\ UNCHANGED <<caller_obj, checksums, waiting, threads, outer_call,
                   writer, reader>>
    /\ UNCHANGED <<specs, aliases, resolve_cache, teardown_calls, constructed, mutable_types, torn_down,
                   locked, config, use_once, last_snapshot, last_checksum,
                   hooks, hook_seen, meta, temp_stack>>

(***************************************************************************)
(* AppConfig.__init__                                                      *)
(***************************************************************************)
\* the loop over get_all_specs(): validate (or require the bypass signal) and
\* store each parameter's initial value or default
RECURSIVE InitValues(_, _, _, _, _, _)
InitValues(cfg, names, initial, bypass_startup, mutable, touched) ==
    IF names = <<>> THEN [err |-> "ok", config |-> cfg, touched |-> touched]
    ELSE LET param == Head(names)
             spec == specs[param]
             val == ImmutableCopy(IF param \in DOMAIN initial THEN initial[param]
                                  ELSE spec.default)
             checked == IF bypass_startup THEN [err |-> "ok", detail |-> {}]
                        ELSE ValidateValue(param, val)
             r == StoreSet(cfg, EmptyDict, param, val, TRUE, "", mutable)
             seen == touched \cup {param}
         IN  IF bypass_startup /\ ~RequireBypassEnv
             THEN [err |-> "ConfigBypassError", config |-> cfg, touched |-> touched]
             ELSE IF checked.err # "ok"
             THEN [err |-> checked.err, config |-> cfg, touched |-> seen]
             ELSE IF r.err # "ok"
             THEN [err |-> r.err, config |-> cfg, touched |-> seen]
             ELSE InitValues(r.config, Tail(names), initial, bypass_startup,
                             mutable, seen)

Construct(initial, bypass_startup, allow_mutable_types, immutable) ==
    /\ UNCHANGED <<caller_obj, checksums, waiting, threads, outer_call,
                   writer, reader>>
    /\ ~constructed
    /\ LET names == SelectSeq(KeyOrder, LAMBDA k : k \in DOMAIN specs)
           r == InitValues(EmptyDict, names, initial, bypass_startup,
                           allow_mutable_types, {})
           seal == UpdateSnapshot(r.config)
       IN  /\ resolve_cache' = Remember(r.touched)
           /\ IF r.err # "ok"
              THEN /\ last' = Call("construct", r.err, NoneVal)
                   /\ UNCHANGED <<constructed, mutable_types, locked, config,
                                  last_snapshot, last_checksum, checker,
                                  stop_event>>
              ELSE /\ constructed' = TRUE
                   /\ stop_event' = FALSE
                   /\ checker' = "test"
                   /\ mutable_types' = allow_mutable_types
                   /\ config' = r.config
                   /\ last_snapshot' = seal.last_snapshot
                   /\ last_checksum' = seal.last_checksum
                   /\ locked' = immutable
                   /\ last' = Call("construct", "ok", NoneVal)
    /\ UNCHANGED <<specs, aliases, teardown_calls, bypass_env, torn_down, use_once, hooks,
                   hook_seen, meta, temp_stack, teardown_pc, polled,
                   reports>>

(***************************************************************************)
(* The public methods of AppConfig.                                        *)
(***************************************************************************)
\* the store, the integrity guard, the metadata, the hooks' view and the cache
\* of resolved names become what the call left behind; the call is recorded
Leave(op, out, ret) ==
    /\ config' = out.config
    /\ use_once' = out.use_once
    /\ last_snapshot' = out.last_snapshot
    /\ last_checksum' = out.last_checksum
    /\ meta' = out.meta
    /\ hook_seen' = out.hook_seen
    /\ resolve_cache' = Remember(out.touched)
    /\ last' = [Call(op, out.err, ret) EXCEPT !.detail = out.detail]

\* the body shared by update (permanent) and use_once (ephemeral) once the
\* instance lock is taken
MutateLocked(batch, bypass, reason, permanent, context) ==
    LET e == EnsureUnlocked(bypass)
        vr == ValidateAndResolve(batch, bypass)
    IN  IF e # "ok" THEN Untouched(e)
        ELSE Resolved(vr, ApplyChanges(vr.resolved, permanent, reason))

\* the body shared by update (permanent) and use_once (ephemeral), behind the
\* is_torn_down decorator
Mutate(batch, bypass, reason, permanent, context) ==
    IF torn_down THEN Untouched("ConfigTornDownError")
    ELSE MutateLocked(batch, bypass, reason, permanent, context)

\* AppConfig.update
Update(batch, bypass, reason) ==
    /\ constructed
    /\ Leave("update", Mutate(batch, bypass, reason, TRUE, "update"), NoneVal)
    /\ UNCHANGED checker_vars
    /\ UNCHANGED <<caller_obj, checksums, waiting, threads, outer_call,
                   writer, reader>>
    /\ UNCHANGED <<specs, aliases, teardown_calls, bypass_env, constructed, mutable_types,
                   torn_down, locked, hooks, temp_stack>>

\* AppConfig.use_once
UseOnce(batch, bypass, reason) ==
    /\ constructed
    /\ Leave("use_once", Mutate(batch, bypass, reason, FALSE, "use_once"), NoneVal)
    /\ UNCHANGED checker_vars
    /\ UNCHANGED <<caller_obj, checksums, waiting, threads, outer_call,
                   writer, reader>>
    /\ UNCHANGED <<specs, aliases, teardown_calls, bypass_env, constructed, mutable_types,
                   torn_down, locked, hooks, temp_stack>>

\* AppConfig.restore_from_snapshot behind the is_torn_down decorator
RestoreLocked(snapshot, bypass) ==
    IF snapshot = <<>> THEN Untouched("ok")
    ELSE LET e == EnsureUnlocked(bypass)
             vr == ValidateAndResolve(snapshot, bypass)
             st == StoreRestore(DictOf(vr.resolved))
             seal == UpdateSnapshot(st.config)
         IN  IF e # "ok" THEN Untouched(e)
             ELSE Resolved(vr, Outcome("ok", st.config, st.use_once,
                                       seal.last_snapshot, seal.last_checksum,
                                       meta, HooksRun(st.config)))

\* the outcome of AppConfig.restore_from_snapshot
RestoreOutcome(snapshot, bypass) ==
    IF torn_down THEN Untouched("ConfigTornDownError")
    ELSE RestoreLocked(snapshot, bypass)

\* AppConfig.restore_from_snapshot
RestoreFromSnapshot(snapshot, bypass) ==
    /\ constructed
    /\ Leave("restore_from_snapshot", RestoreOutcome(snapshot, bypass), NoneVal)
    /\ UNCHANGED checker_vars
    /\ UNCHANGED <<caller_obj, checksums, waiting, threads, outer_call,
                   writer, reader>>
    /\ UNCHANGED <<specs, aliases, teardown_calls, bypass_env, constructed, mutable_types,
                   torn_down, locked, hooks, temp_stack>>

\* AppConfig.get behind the is_torn_down decorator: the key is resolved, the
\* parameter's default is fetched, then the store resolves the name again and
\* serves it with that default as fallback; the result, the value returned,
\* the key of a not-found error, the ephemeral layer afterwards and the names
\* passed to resolve_param_name
GetOutcome(key) ==
    LET found == ResolveAndGet(key)
        name == ResolveParamName(found[1].name)
        r == StoreGet(config, use_once, name[1],
                      ImmutableCopy(found[1].spec.default))
    IN  IF torn_down
        THEN [res |-> "ConfigTornDownError", ret |-> NoneVal, detail |-> {},
              use_once |-> use_once, touched |-> {}]
        ELSE IF found = None
        THEN [res |-> "ConfigNotFoundError", ret |-> NoneVal,
              detail |-> {NotFoundKey(key)}, use_once |-> use_once,
              touched |-> {key}]
        ELSE [res |-> "ok", ret |-> r.ret, detail |-> {}, use_once |-> r.use_once,
              touched |-> {key, found[1].name}]

\* AppConfig.get
Get(key) ==
    /\ constructed
    /\ LET out == GetOutcome(key)
       IN  /\ last' = [Call("get", out.res, out.ret) EXCEPT !.detail = out.detail]
           /\ use_once' = out.use_once
           /\ resolve_cache' = Remember(out.touched)
    /\ UNCHANGED checker_vars
    /\ UNCHANGED <<caller_obj, checksums, waiting, threads, outer_call,
                   writer, reader>>
    /\ UNCHANGED <<specs, aliases, teardown_calls, bypass_env, constructed, mutable_types,
                   torn_down, locked, config, last_snapshot, last_checksum,
                   hooks, hook_seen, meta, temp_stack>>

\* a faulty finally clause that reseals the prior snapshot but leaves the
\* store as the block made it
RevertSealOnly(err, prior_config, prior_checksum, m, seen) ==
    LET seal == UpdateSnapshot(prior_config)
    IN  Outcome(err, config, use_once, seal.last_snapshot,
                IF prior_checksum # None THEN prior_checksum
                ELSE seal.last_checksum,
                m, seen)

\* the finally clause of temp_update: the prior snapshot is restored and
\* resealed, then the prior checksum is put back when there was one
Revert(err, prior_config, prior_checksum, m, seen) ==
    LET st == StoreRestore(prior_config)
        seal == UpdateSnapshot(prior_config)
    IN  Outcome(err, st.config, st.use_once, seal.last_snapshot,
                IF prior_checksum # None THEN prior_checksum
                ELSE seal.last_checksum,
                m, seen)

\* AppConfig.temp_update up to its yield: the pre-state is captured, the
\* values are applied, and a failure runs the finally clause at once
TempUpdateEnter(batch, bypass) ==
    /\ constructed
    /\ Len(temp_stack) < MaxDepth
    /\ LET prior_config == config
           prior_checksum == last_checksum
           vr == ValidateAndResolve(batch, bypass)
           out == Resolved(vr, ApplyChanges(vr.resolved, TRUE, "temp_update"))
           rev == Noted(Revert(out.err, prior_config, prior_checksum, out.meta,
                               out.hook_seen),
                        out.detail, out.touched)
       IN  IF out.err = "ok"
           THEN /\ Leave("temp_update", out, NoneVal)
                /\ temp_stack' = <<[prior_config |-> prior_config,
                                    prior_checksum |-> prior_checksum,
                                    entry_verify |-> Verify]>> \o temp_stack
           ELSE /\ Leave("temp_update", rev, NoneVal)
                /\ UNCHANGED temp_stack
    /\ UNCHANGED checker_vars
    /\ UNCHANGED <<caller_obj, checksums, waiting, threads, outer_call,
                   writer, reader>>
    /\ UNCHANGED <<specs, aliases, teardown_calls, bypass_env, constructed, mutable_types,
                   torn_down, locked, hooks>>

\* AppConfig.temp_update after its yield: the innermost block is left, by
\* falling off its end or by an exception raised in its body
TempUpdateExit(raised) ==
    /\ constructed
    /\ temp_stack # <<>>
    /\ LET frame == Head(temp_stack)
           rev == Revert(IF raised THEN "BodyError" ELSE "ok", frame.prior_config,
                         frame.prior_checksum, meta, hook_seen)
       IN  Leave("temp_update_exit", rev, NoneVal)
    /\ temp_stack' = Tail(temp_stack)
    /\ UNCHANGED checker_vars
    /\ UNCHANGED <<caller_obj, checksums, waiting, threads, outer_call,
                   writer, reader>>
    /\ UNCHANGED <<specs, aliases, teardown_calls, bypass_env, constructed, mutable_types,
                   torn_down, locked, hooks>>

\* AppConfig.verify_integrity: callable in every state
VerifyIntegrity ==
    /\ constructed
    /\ last' = Call("verify_integrity", "ok", BoolVal(Verify))
    /\ UNCHANGED checker_vars
    /\ UNCHANGED <<caller_obj, checksums, waiting, threads, outer_call,
                   writer, reader>>
    /\ UNCHANGED <<specs, aliases, resolve_cache, teardown_calls, bypass_env, constructed, mutable_types,
                   torn_down, locked, config, use_once, last_snapshot,
                   last_checksum, hooks, hook_seen, meta, temp_stack>>

\* the on_violation calls after a poll that returned ok: one more when the
\* poll failed
Reported(n, ok) == IF ok \/ n = MaxReports THEN n ELSE n + 1

\* the checker thread once stop() has joined it: it has left its loop
Joined(thread) == IF thread = "none" THEN "none" ELSE "done"

\* the verify() results the checker can still produce while a teardown() call
\* stops it: a poll that began before torn_down was set runs to its end
LastPolls ==
    IF checker \in {"test", "verify"}
    THEN {<<polled, reports>>, <<Some(Verify), Reported(reports, Verify)>>}
    ELSE {<<polled, reports>>}

\* a faulty teardown behind the is_torn_down decorator: a second call raises
TeardownGuarded ==
    /\ UNCHANGED <<caller_obj, checksums, waiting, threads, outer_call,
                   writer, reader>>
    /\ constructed
    /\ teardown_pc = "idle"
    /\ UNCHANGED teardown_pc
    /\ IF torn_down
       THEN /\ last' = Call("teardown", "ConfigTornDownError", NoneVal)
            /\ UNCHANGED <<torn_down, config, use_once, hooks, last_snapshot,
                           last_checksum, meta, teardown_calls, checker,
                           stop_event, polled, reports>>
       ELSE /\ torn_down' = TRUE
            /\ stop_event' = TRUE
            /\ checker' = Joined(checker)
            /\ \E p \in LastPolls : polled' = p[1] /\ reports' = p[2]
            /\ config' = EmptyDict
            /\ use_once' = EmptyDict
            /\ hooks' = <<>>
            /\ last_snapshot' = None
            /\ last_checksum' = None
            /\ meta' = MetaCleared
            /\ teardown_calls' = teardown_calls + 1
            /\ last' = Call("teardown", "ok", NoneVal)
    /\ UNCHANGED <<specs, aliases, resolve_cache, bypass_env, constructed, mutable_types,
                   locked, hook_seen, temp_stack>>

\* AppConfig.teardown, the whole call: the checker is stopped and joined on
\* the way
Teardown ==
    /\ UNCHANGED <<caller_obj, checksums, waiting, threads, outer_call,
                   writer, reader>>
    /\ constructed
    /\ teardown_pc = "idle"
    /\ UNCHANGED teardown_pc
    /\ stop_event' = TRUE
    /\ checker' = Joined(checker)
    /\ \E p \in LastPolls : polled' = p[1] /\ reports' = p[2]
    /\ torn_down' = TRUE
    /\ config' = EmptyDict
    /\ use_once' = EmptyDict
    /\ hooks' = <<>>
    /\ last_snapshot' = None
    /\ last_checksum' = None
    /\ meta' = MetaCleared
    /\ teardown_calls' = IF teardown_calls < MaxTeardowns THEN teardown_calls + 1
                         ELSE teardown_calls
    /\ last' = Call("teardown", "ok", NoneVal)
    /\ UNCHANGED <<specs, aliases, resolve_cache, bypass_env, constructed, mutable_types,
                   locked, hook_seen, temp_stack>>

\* AppConfig.teardown up to the call of IntegrityGuard.stop: the flag is set,
\* the store and the hooks are cleared
TeardownBegin ==
    /\ UNCHANGED <<caller_obj, checksums, waiting, threads, outer_call,
                   writer, reader>>
    /\ constructed
    /\ teardown_pc = "idle"
    /\ teardown_pc' = "begun"
    /\ torn_down' = TRUE
    /\ config' = EmptyDict
    /\ use_once' = EmptyDict
    /\ hooks' = <<>>
    /\ UNCHANGED <<specs, aliases, resolve_cache, bypass_env, constructed,
                   mutable_types, locked, last_snapshot, last_checksum,
                   hook_seen, meta, temp_stack, teardown_calls, last, checker,
                   stop_event, polled, reports>>

\* IntegrityGuard.stop, first statement: the stop event is set
StopSet ==
    /\ UNCHANGED <<caller_obj, checksums, waiting, threads, outer_call,
                   writer, reader>>
    /\ teardown_pc = "begun"
    /\ teardown_pc' = "stopping"
    /\ stop_event' = TRUE
    /\ UNCHANGED <<specs, aliases, resolve_cache, bypass_env, constructed,
                   mutable_types, torn_down, locked, config, use_once,
                   last_snapshot, last_checksum, hooks, hook_seen, meta,
                   temp_stack, teardown_calls, last, checker, polled,
                   reports>>

\* a faulty stop that sets the event and does not wait for the thread
StopJoinSkipped ==
    /\ UNCHANGED <<caller_obj, checksums, waiting, threads, outer_call,
                   writer, reader>>
    /\ teardown_pc = "stopping"
    /\ teardown_pc' = "joined"
    /\ UNCHANGED <<specs, aliases, resolve_cache, bypass_env, constructed,
                   mutable_types, torn_down, locked, config, use_once,
                   last_snapshot, last_checksum, hooks, hook_seen, meta,
                   temp_stack, teardown_calls, last, checker, stop_event,
                   polled, reports>>

\* IntegrityGuard.stop, the join: it returns when the thread is not alive
StopJoin ==
    /\ UNCHANGED <<caller_obj, checksums, waiting, threads, outer_call,
                   writer, reader>>
    /\ teardown_pc = "stopping"
    /\ checker \in {"none", "done"}
    /\ teardown_pc' = "joined"
    /\ UNCHANGED <<specs, aliases, resolve_cache, bypass_env, constructed,
                   mutable_types, torn_down, locked, config, use_once,
                   last_snapshot, last_checksum, hooks, hook_seen, meta,
                   temp_stack, teardown_calls, last, checker, stop_event,
                   polled, reports>>

\* the rest of AppConfig.teardown: IntegrityGuard.clear discards the snapshot
\* and the checksum, the metadata is cleared and the call returns
TeardownClear ==
    /\ UNCHANGED <<caller_obj, checksums, waiting, threads, outer_call,
                   writer, reader>>
    /\ teardown_pc = "joined"
    /\ teardown_pc' = "idle"
    /\ stop_event' = TRUE
    /\ last_snapshot' = None
    /\ last_checksum' = None
    /\ meta' = MetaCleared
    /\ teardown_calls' = IF teardown_calls < MaxTeardowns THEN teardown_calls + 1
                         ELSE teardown_calls
    /\ last' = Call("teardown", "ok", NoneVal)
    /\ UNCHANGED <<specs, aliases, resolve_cache, bypass_env, constructed,
                   mutable_types, torn_down, locked, config, use_once, hooks,
                   hook_seen, temp_stack, checker, polled, reports>>

\* the checker's loop test: it leaves the loop when the instance is torn down
\* or the stop event is set
CheckerTest ==
    /\ UNCHANGED <<caller_obj, checksums, waiting, threads, outer_call,
                   writer, reader>>
    /\ checker = "test"
    /\ checker' = IF torn_down \/ stop_event THEN "done" ELSE "verify"
    /\ UNCHANGED <<specs, aliases, resolve_cache, bypass_env, constructed,
                   mutable_types, torn_down, locked, config, use_once,
                   last_snapshot, last_checksum, hooks, hook_seen, meta,
                   temp_stack, teardown_calls, last, stop_event, teardown_pc,
                   polled, reports>>

\* the sink AppConfig hands to start_checker is logger.critical, which returns
OnViolationRaises == FALSE

\* a faulty poll whose report ends the thread
CheckerVerifyFatal ==
    /\ UNCHANGED <<caller_obj, checksums, waiting, threads, outer_call,
                   writer, reader>>
    /\ checker = "verify"
    /\ checker' = IF Verify THEN "wait" ELSE "done"
    /\ polled' = Some(Verify)
    /\ reports' = Reported(reports, Verify)
    /\ UNCHANGED <<specs, aliases, resolve_cache, bypass_env, constructed,
                   mutable_types, torn_down, locked, config, use_once,
                   last_snapshot, last_checksum, hooks, hook_seen, meta,
                   temp_stack, teardown_calls, last, stop_event, teardown_pc>>

\* the checker's poll: verify(), reported through on_violation when false
CheckerVerify ==
    /\ UNCHANGED <<caller_obj, checksums, waiting, threads, outer_call,
                   writer, reader>>
    /\ checker = "verify"
    /\ checker' = IF ~Verify /\ OnViolationRaises THEN "done" ELSE "wait"
    /\ polled' = Some(Verify)
    /\ reports' = Reported(reports, Verify)
    /\ UNCHANGED <<specs, aliases, resolve_cache, bypass_env, constructed,
                   mutable_types, torn_down, locked, config, use_once,
                   last_snapshot, last_checksum, hooks, hook_seen, meta,
                   temp_stack, teardown_calls, last, stop_event, teardown_pc>>

\* the checker's wait on the stop event: it ends when the event is set or
\* after the timeout
CheckerWait ==
    /\ UNCHANGED <<caller_obj, checksums, waiting, threads, outer_call,
                   writer, reader>>
    /\ checker = "wait"
    /\ checker' = "test"
    /\ UNCHANGED <<specs, aliases, resolve_cache, bypass_env, constructed,
                   mutable_types, torn_down, locked, config, use_once,
                   last_snapshot, last_checksum, hooks, hook_seen, meta,
                   temp_stack, teardown_calls, last, stop_event, teardown_pc,
                   polled, reports>>

\* AppConfig.lock
Lock ==
    /\ constructed
    /\ locked' = TRUE
    /\ last' = Call("lock", "ok", NoneVal)
    /\ UNCHANGED checker_vars
    /\ UNCHANGED <<caller_obj, checksums, waiting, threads, outer_call,
                   writer, reader>>
    /\ UNCHANGED <<specs, aliases, resolve_cache, teardown_calls, bypass_env, constructed, mutable_types,
                   torn_down, config, use_once, last_snapshot, last_checksum,
                   hooks, hook_seen, meta, temp_stack>>

\* a faulty unlock that takes _bypass=True at its word, signal or no signal
UnlockUnchecked(bypass) ==
    /\ constructed
    /\ IF bypass
       THEN locked' = FALSE /\ last' = Call("unlock", "ok", NoneVal)
       ELSE IF ~locked
       THEN UNCHANGED locked /\ last' = Call("unlock", "ok", NoneVal)
       ELSE UNCHANGED locked /\ last' = Call("unlock", "UserWarning", NoneVal)
    /\ UNCHANGED checker_vars
    /\ UNCHANGED <<caller_obj, checksums, waiting, threads, outer_call,
                   writer, reader>>
    /\ UNCHANGED <<specs, aliases, resolve_cache, teardown_calls, bypass_env, constructed, mutable_types,
                   torn_down, config, use_once, last_snapshot, last_checksum,
                   hooks, hook_seen, meta, temp_stack>>

\* LockGuard.unlock behind AppConfig.unlock
Unlock(bypass) ==
    /\ constructed
    /\ IF bypass /\ RequireBypassEnv
       THEN locked' = FALSE /\ last' = Call("unlock", "ok", NoneVal)
       ELSE IF bypass /\ ~RequireBypassEnv
       THEN UNCHANGED locked /\ last' = Call("unlock", "ConfigBypassError", NoneVal)
       ELSE IF ~locked
       THEN UNCHANGED locked /\ last' = Call("unlock", "ok", NoneVal)
       ELSE UNCHANGED locked /\ last' = Call("unlock", "UserWarning", NoneVal)
    /\ UNCHANGED checker_vars
    /\ UNCHANGED <<caller_obj, checksums, waiting, threads, outer_call,
                   writer, reader>>
    /\ UNCHANGED <<specs, aliases, resolve_cache, teardown_calls, bypass_env, constructed, mutable_types,
                   torn_down, config, use_once, last_snapshot, last_checksum,
                   hooks, hook_seen, meta, temp_stack>>

\* the reading methods that only check the torn-down flag: snapshot,
\* memory_fingerprint, is_locked, __iter__ and __len__
ReadOps == {"snapshot", "memory_fingerprint", "is_locked", "iter", "len"}

Read(op) ==
    /\ constructed
    /\ last' = Call(op, IF torn_down THEN "ConfigTornDownError" ELSE "ok", NoneVal)
    /\ UNCHANGED checker_vars
    /\ UNCHANGED <<caller_obj, checksums, waiting, threads, outer_call,
                   writer, reader>>
    /\ UNCHANGED <<specs, aliases, resolve_cache, teardown_calls, bypass_env, constructed, mutable_types,
                   torn_down, locked, config, use_once, last_snapshot,
                   last_checksum, hooks, hook_seen, meta, temp_stack>>

\* AppConfig.register_post_update_hook
RegisterPostUpdateHook(func) ==
    /\ constructed
    /\ torn_down \/ Len(hooks) < MaxHooks
    /\ IF torn_down
       THEN /\ last' = Call("register_post_update_hook", "ConfigTornDownError", NoneVal)
            /\ UNCHANGED hooks
       ELSE /\ last' = Call("register_post_update_hook", "ok", NoneVal)
            /\ hooks' = Append(hooks, func)
    /\ UNCHANGED checker_vars
    /\ UNCHANGED <<caller_obj, checksums, waiting, threads, outer_call,
                   writer, reader>>
    /\ UNCHANGED <<specs, aliases, resolve_cache, teardown_calls, bypass_env, constructed, mutable_types,
                   torn_down, locked, config, use_once, last_snapshot,
                   last_checksum, hook_seen, meta, temp_stack>>

\* AppConfig.__setitem__: update(**{key: value})
SetItem(key, value) ==
    /\ constructed
    /\ Leave("setitem", Mutate(<<<<key, value>>>>, FALSE, "", TRUE, "update"), NoneVal)
    /\ UNCHANGED checker_vars
    /\ UNCHANGED <<caller_obj, checksums, waiting, threads, outer_call,
                   writer, reader>>
    /\ UNCHANGED <<specs, aliases, teardown_calls, bypass_env, constructed, mutable_types,
                   torn_down, locked, hooks, temp_stack>>

\* AppConfig.__delitem__: the key is resolved and its spec fetched first, then
\* the parameter is updated to its default
DelItem(key) ==
    /\ constructed
    /\ LET found == ResolveAndGet(key)
           out == Mutate(<<<<found[1].name, found[1].spec.default>>>>, FALSE, "",
                         TRUE, "update")
       IN  IF found = None
           THEN Leave("delitem",
                      Noted(Untouched("ConfigNotFoundError"), {NotFoundKey(key)},
                            {key}), NoneVal)
           ELSE Leave("delitem",
                      Noted(out, out.detail, out.touched \cup {key}), NoneVal)
    /\ UNCHANGED checker_vars
    /\ UNCHANGED <<caller_obj, checksums, waiting, threads, outer_call,
                   writer, reader>>
    /\ UNCHANGED <<specs, aliases, teardown_calls, bypass_env, constructed, mutable_types,
                   torn_down, locked, hooks, temp_stack>>

(***************************************************************************)
(* The process-wide registry: register_param, REGISTRY.clear and the       *)
(* cached resolve_param_name, callable at any time.                        *)
(***************************************************************************)
\* ParamRegistry._register_aliases on the alias map: the aliases are set one
\* by one, and a conflicting alias raises with the earlier ones already set
RECURSIVE RegisterAliases(_, _, _, _)
RegisterAliases(amap, als, key, override) ==
    IF als = <<>> THEN [err |-> "ok", aliases |-> amap]
    ELSE LET ak == Canon(Head(als))
         IN  IF ~override /\ ak \in DOMAIN amap /\ amap[ak] # key
             THEN [err |-> "ConfigValidationError", aliases |-> amap]
             ELSE RegisterAliases([x \in DOMAIN amap \cup {ak} |->
                                      IF x = ak THEN key ELSE amap[x]],
                                  Tail(als), key, override)

\* ParamRegistry.register behind register_param: the spec is stored under its
\* canonical name, then the aliases are registered
RegisterParam(spec, als, override) ==
    /\ LET key == Canon(spec.name)
           r == RegisterAliases(aliases, als, key, override)
       IN  IF ~override /\ key \in DOMAIN specs
           THEN /\ last' = Call("register_param", "ConfigDuplicateError", NoneVal)
                /\ UNCHANGED <<specs, aliases>>
           ELSE /\ specs' = [x \in DOMAIN specs \cup {key} |->
                                IF x = key THEN spec ELSE specs[x]]
                /\ aliases' = r.aliases
                /\ last' = Call("register_param", r.err, NoneVal)
    /\ UNCHANGED checker_vars
    /\ UNCHANGED <<caller_obj, checksums, waiting, threads, outer_call,
                   writer, reader>>
    /\ UNCHANGED <<resolve_cache, teardown_calls, bypass_env, constructed, mutable_types,
                   torn_down, locked, config, use_once, last_snapshot,
                   last_checksum, hooks, hook_seen, meta, temp_stack>>

\* a faulty clear that empties the spec map and keeps the alias map
RegistryClearSpecsOnly ==
    /\ specs' = SpecsOf({})
    /\ last' = Call("clear", "ok", NoneVal)
    /\ UNCHANGED checker_vars
    /\ UNCHANGED <<caller_obj, checksums, waiting, threads, outer_call,
                   writer, reader>>
    /\ UNCHANGED <<aliases, resolve_cache, teardown_calls, bypass_env, constructed,
                   mutable_types, torn_down, locked, config, use_once,
                   last_snapshot, last_checksum, hooks, hook_seen, meta, temp_stack>>

\* ParamRegistry.clear
RegistryClear ==
    /\ specs' = SpecsOf({})
    /\ aliases' = EmptyNames
    /\ last' = Call("clear", "ok", NoneVal)
    /\ UNCHANGED checker_vars
    /\ UNCHANGED <<caller_obj, checksums, waiting, threads, outer_call,
                   writer, reader>>
    /\ UNCHANGED <<resolve_cache, teardown_calls, bypass_env, constructed, mutable_types,
                   torn_down, locked, config, use_once, last_snapshot,
                   last_checksum, hooks, hook_seen, meta, temp_stack>>

\* the frame of the steps of the registry's writer and reader
RegistryFrame ==
    /\ UNCHANGED checker_vars
    /\ UNCHANGED <<resolve_cache, bypass_env, constructed, mutable_types,
                   torn_down, locked, config, use_once, last_snapshot,
                   last_checksum, hooks, hook_seen, meta, temp_stack,
                   teardown_calls, caller_obj, checksums, waiting, threads,
                   outer_call>>

\* ParamRegistry.register up to the call of _register_aliases: a duplicate
\* raises, else the spec is stored under its canonical name
RegisterBegin(spec, als, override) ==
    /\ writer = None
    /\ LET key == Canon(spec.name)
       IN  IF ~override /\ key \in DOMAIN specs
           THEN /\ last' = Call("register", "ConfigDuplicateError", NoneVal)
                /\ UNCHANGED <<specs, writer>>
           ELSE /\ specs' = [x \in DOMAIN specs \cup {key} |->
                                IF x = key THEN spec ELSE specs[x]]
                /\ writer' = Some([op |-> "register", key |-> key, rest |-> als,
                                   override |-> override])
                /\ UNCHANGED last
    /\ UNCHANGED <<aliases, reader>>
    /\ RegistryFrame

\* one round of the loop of _register_aliases: a conflicting alias raises,
\* else the alias is set
RegisterAlias ==
    /\ writer # None
    /\ writer[1].op = "register"
    /\ writer[1].rest # <<>>
    /\ LET ak == Canon(Head(writer[1].rest))
           key == writer[1].key
       IN  IF ~writer[1].override /\ ak \in DOMAIN aliases /\ aliases[ak] # key
           THEN /\ last' = Call("register", "ConfigValidationError", NoneVal)
                /\ writer' = None
                /\ UNCHANGED aliases
           ELSE /\ aliases' = [x \in DOMAIN aliases \cup {ak} |->
                                  IF x = ak THEN key ELSE aliases[x]]
                /\ writer' = Some([writer[1] EXCEPT !.rest = Tail(@)])
                /\ UNCHANGED last
    /\ UNCHANGED <<specs, reader>>
    /\ RegistryFrame

\* the loop is through and register returns
RegisterEnd ==
    /\ writer # None
    /\ writer[1].op = "register"
    /\ writer[1].rest = <<>>
    /\ writer' = None
    /\ last' = Call("register", "ok", NoneVal)
    /\ UNCHANGED <<specs, aliases, reader>>
    /\ RegistryFrame

\* ParamRegistry.clear, its first statement: self._specs.clear()
ClearSpecs ==
    /\ writer = None
    /\ specs' = SpecsOf({})
    /\ writer' = Some([op |-> "clear", key |-> "", rest |-> <<>>,
                       override |-> FALSE])
    /\ UNCHANGED <<aliases, reader, last>>
    /\ RegistryFrame

\* ParamRegistry.clear, its second statement: self._aliases.clear()
ClearAliases ==
    /\ writer # None
    /\ writer[1].op = "clear"
    /\ aliases' = EmptyNames
    /\ writer' = None
    /\ last' = Call("clear", "ok", NoneVal)
    /\ UNCHANGED <<specs, reader>>
    /\ RegistryFrame

\* the steps of the thread that writes the registry
WriterStep == RegisterAlias \/ RegisterEnd \/ ClearAliases

\* ParamRegistry.get, its first statement: _resolve_key answers with the
\* canonical name or raises ConfigNotFoundError
ReaderResolve(name) ==
    /\ reader.pc = "idle"
    /\ reader' = IF ResolveKey(name) = None
                 THEN [pc |-> "done", key |-> Canon(name),
                       res |-> "ConfigNotFoundError"]
                 ELSE [pc |-> "resolved", key |-> ResolveKey(name)[1], res |-> ""]
    /\ UNCHANGED <<specs, aliases, writer, last>>
    /\ RegistryFrame

\* ParamRegistry.get, its second statement: self._specs[key]
ReaderFetch ==
    /\ reader.pc = "resolved"
    /\ reader' = [reader EXCEPT !.pc = "done",
                                !.res = IF reader.key \in DOMAIN specs THEN "ok"
                                        ELSE "KeyError"]
    /\ UNCHANGED <<specs, aliases, writer, last>>
    /\ RegistryFrame

\* the reader is through with its call and may call again
ReaderReturn ==
    /\ reader.pc = "done"
    /\ reader' = IdleReader
    /\ UNCHANGED <<specs, aliases, writer, last>>
    /\ RegistryFrame

\* a call of resolve_param_name
ResolveName(key) ==
    /\ LET name == ResolveParamName(key)
       IN  last' = IF name = None
                   THEN [Call("resolve_param_name", "ConfigNotFoundError", NoneVal)
                           EXCEPT !.detail = {Canon(key)}]
                   ELSE Call("resolve_param_name", "ok", StrVal(name[1]))
    /\ resolve_cache' = Remember({key})
    /\ UNCHANGED checker_vars
    /\ UNCHANGED <<caller_obj, checksums, waiting, threads, outer_call,
                   writer, reader>>
    /\ UNCHANGED <<specs, aliases, teardown_calls, bypass_env, constructed, mutable_types,
                   torn_down, locked, config, use_once, last_snapshot,
                   last_checksum, hooks, hook_seen, meta, temp_stack>>

\* a call of REGISTRY.resolve_name
RegistryResolveName(key) ==
    /\ LET name == ResolveKey(key)
       IN  last' = IF name = None
                   THEN [Call("resolve_name", "ConfigNotFoundError", NoneVal)
                           EXCEPT !.detail = {Canon(key)}]
                   ELSE Call("resolve_name", "ok", StrVal(name[1]))
    /\ UNCHANGED checker_vars
    /\ UNCHANGED <<caller_obj, checksums, waiting, threads, outer_call,
                   writer, reader>>
    /\ UNCHANGED <<specs, aliases, resolve_cache, teardown_calls, bypass_env, constructed,
                   mutable_types, torn_down, locked, config, use_once,
                   last_snapshot, last_checksum, hooks, hook_seen, meta, temp_stack>>

\* the values checksummed: an int and a bool that compare equal, a list, a
\* tuple and a set with the same item, and the text of the set
ChecksumValues ==
    {IntVal(1), BoolVal(TRUE), TupleVal(<<1>>),
     Container("list", <<1>>, "caller"), Container("set", <<1>>, "caller"),
     StrVal(ReprOf(Container("set", <<1>>, "caller")))}

\* the mappings checksummed: up to two keys, inserted in either order
ChecksumKeys == {"FRUIT_LIST", "VERIFY"}
ChecksumItems == ChecksumKeys \X ChecksumValues
ChecksumDicts ==
    {<<>>} \cup {<<i>> : i \in ChecksumItems}
           \cup {d \in ChecksumItems \X ChecksumItems : d[1][1] # d[2][1]}

\* the kinds of mutable object a caller holds
Kinds == {"list", "set"}

\* the caller's own object of a kind, as it is passed to a call
CallerObject(kind) == Container(kind, caller_obj[kind], "caller")

\* a layer after an object was changed in place: every entry that is that
\* very object shows the new items
Touched(layer, kind, owner, items) ==
    [k \in DOMAIN layer |->
        IF Mutable(layer[k]) /\ layer[k].type = kind /\ layer[k].owner = owner
        THEN Container(kind, items, owner) ELSE layer[k]]

\* the caller appends to its list or adds to its set, after whatever calls
\* it has passed the object to
CallerMutates(kind) ==
    /\ Len(caller_obj[kind]) < MaxItems
    /\ LET items == Append(caller_obj[kind], Len(caller_obj[kind]) + 1)
       IN  /\ caller_obj' = [caller_obj EXCEPT ![kind] = items]
           /\ config' = Touched(config, kind, "caller", items)
           /\ use_once' = Touched(use_once, kind, "caller", items)
    /\ UNCHANGED checker_vars
    /\ UNCHANGED <<writer, reader>>
    /\ UNCHANGED outer_call
    /\ UNCHANGED threads
    /\ UNCHANGED <<specs, aliases, resolve_cache, bypass_env, constructed,
                   mutable_types, torn_down, locked, last_snapshot,
                   last_checksum, hooks, hook_seen, meta, temp_stack,
                   teardown_calls, last, checksums, waiting>>

\* the caller tries to change the object the last get returned: a tuple
\* has no append (AttributeError), a set takes the new item
MutateReturned ==
    /\ last.op = "get"
    /\ last.res = "ok"
    /\ last.ret.type \in {"tuple", "set"}
    /\ Len(last.ret.items) < MaxItems
    /\ IF Mutable(last.ret)
       THEN LET items == Append(last.ret.items, Len(last.ret.items) + 1)
            IN  /\ last' = Call("mutate_returned", "ok",
                                Container(last.ret.type, items, last.ret.owner))
                /\ config' = Touched(config, last.ret.type, last.ret.owner, items)
                /\ use_once' = Touched(use_once, last.ret.type, last.ret.owner,
                                       items)
       ELSE /\ last' = Call("mutate_returned", "AttributeError", last.ret)
            /\ UNCHANGED <<config, use_once>>
    /\ UNCHANGED checker_vars
    /\ UNCHANGED <<writer, reader>>
    /\ UNCHANGED outer_call
    /\ UNCHANGED threads
    /\ UNCHANGED <<specs, aliases, resolve_cache, bypass_env, constructed,
                   mutable_types, torn_down, locked, last_snapshot,
                   last_checksum, hooks, hook_seen, meta, temp_stack,
                   teardown_calls, caller_obj, checksums, waiting>>

\* the mutating calls another thread makes
WaitingOps == {"update", "use_once", "restore_from_snapshot"}

\* another thread calls update, use_once or restore_from_snapshot: the
\* is_torn_down decorator tests the flag without the instance lock, raises
\* when it is set, and else goes on to wait for the lock
Enter(op, batch) ==
    /\ constructed
    /\ waiting = None
    /\ IF torn_down
       THEN /\ last' = Call(op, "ConfigTornDownError", NoneVal)
            /\ UNCHANGED waiting
       ELSE /\ waiting' = Some([op |-> op, batch |-> batch, out |-> None])
            /\ UNCHANGED last
    /\ UNCHANGED checker_vars
    /\ UNCHANGED <<writer, reader>>
    /\ UNCHANGED outer_call
    /\ UNCHANGED threads
    /\ UNCHANGED <<specs, aliases, resolve_cache, bypass_env, constructed,
                   mutable_types, torn_down, locked, config, use_once,
                   last_snapshot, last_checksum, hooks, hook_seen, meta,
                   temp_stack, teardown_calls, caller_obj, checksums>>

\* what the waiting call does once it holds the instance lock
Proceeding(call) ==
    IF call.op = "restore_from_snapshot" THEN RestoreLocked(call.batch, FALSE)
    ELSE MutateLocked(call.batch, FALSE, "", call.op = "update", call.op)

\* a faulty lock that a thread inside its update does not hold
LockNeverHeld == FALSE

\* the main thread is inside the with self.__lock block of a call that is
\* running its hooks
LockHeldByCall == outer_call # None

\* a faulty temp_update that releases the lock while its block runs
LockLeftByBlock == FALSE

\* a temp_update block is open: its with self.__lock wraps the yield, so the
\* thread that opened it holds the lock until the finally clause is through
LockHeldByBlock == temp_stack # <<>>

\* one of the threads is inside the with self.__lock block of its update,
\* use_once or restore_from_snapshot, between the writes to the store and
\* the reseal
LockHeldByThread == \E t \in Threads : threads[t].pc = "sealing"

\* the waiting call takes the instance lock and runs: the lock is free when
\* no teardown() is under way and no temp_update block is open
Proceed ==
    /\ waiting # None
    /\ waiting[1].out = None
    /\ teardown_pc = "idle"
    /\ ~LockHeldByBlock
    /\ ~LockHeldByThread
    /\ ~LockHeldByCall
    /\ Leave(waiting[1].op, Proceeding(waiting[1]), NoneVal)
    /\ waiting' = None
    /\ UNCHANGED checker_vars
    /\ UNCHANGED <<writer, reader>>
    /\ UNCHANGED outer_call
    /\ UNCHANGED threads
    /\ UNCHANGED <<specs, aliases, bypass_env, constructed, mutable_types,
                   torn_down, locked, hooks, temp_stack, teardown_calls,
                   caller_obj, checksums>>

\* the waiting call, lock taken, runs as far as the first statement of
\* update_snapshot: the store and the metadata are written and
\* _last_snapshot is assigned, _last_checksum is not yet
ProceedWrite ==
    /\ waiting # None
    /\ waiting[1].out = None
    /\ teardown_pc = "idle"
    /\ ~LockHeldByBlock
    /\ ~LockHeldByThread
    /\ ~LockHeldByCall
    /\ LET out == Proceeding(waiting[1])
       IN  /\ out.err = "ok"
           /\ config' = out.config
           /\ use_once' = out.use_once
           /\ meta' = out.meta
           /\ resolve_cache' = Remember(out.touched)
           /\ last_snapshot' = out.last_snapshot
           /\ waiting' = Some([waiting[1] EXCEPT !.out = Some(out)])
    /\ UNCHANGED checker_vars
    /\ UNCHANGED <<writer, reader>>
    /\ UNCHANGED outer_call
    /\ UNCHANGED threads
    /\ UNCHANGED <<specs, aliases, bypass_env, constructed, mutable_types,
                   torn_down, locked, last_checksum, hooks, hook_seen,
                   temp_stack, teardown_calls, last, caller_obj, checksums>>

\* the rest of that call: _last_checksum is assigned, the hooks run, the
\* call returns and the lock is released
ProceedSeal ==
    /\ waiting # None
    /\ waiting[1].out # None
    /\ last_checksum' = waiting[1].out[1].last_checksum
    /\ hook_seen' = waiting[1].out[1].hook_seen
    /\ last' = [Call(waiting[1].op, "ok", NoneVal) EXCEPT
                   !.detail = waiting[1].out[1].detail]
    /\ waiting' = None
    /\ UNCHANGED checker_vars
    /\ UNCHANGED <<writer, reader>>
    /\ UNCHANGED outer_call
    /\ UNCHANGED threads
    /\ UNCHANGED <<specs, aliases, resolve_cache, bypass_env, constructed,
                   mutable_types, torn_down, locked, config, use_once,
                   last_snapshot, hooks, meta, temp_stack, teardown_calls,
                   caller_obj, checksums>>

\* _checksum_of_config applied to a mapping: it is set beside the mapping
\* checksummed before it
ChecksumCall(data) ==
    /\ LET left == IF checksums = None THEN data ELSE checksums[1].right
       IN  checksums' = Some([left |-> left, right |-> data,
                              sums |-> <<ChecksumOfDict(left),
                                         ChecksumOfDict(data)>>])
    /\ UNCHANGED checker_vars
    /\ UNCHANGED <<writer, reader>>
    /\ UNCHANGED outer_call
    /\ UNCHANGED threads
    /\ UNCHANGED <<specs, aliases, resolve_cache, bypass_env, constructed,
                   mutable_types, torn_down, locked, config, use_once,
                   last_snapshot, last_checksum, hooks, hook_seen, meta,
                   temp_stack, teardown_calls, last, caller_obj, waiting>>

\* a call of another thread is between the two assignments of its reseal
\* and holds the instance lock; the lock is free when no teardown() call
\* and no such call is holding it
Sealing == waiting # None /\ waiting[1].out # None

LockFree ==
    teardown_pc = "idle" /\ ~Sealing /\ ~LockHeldByThread /\ ~LockHeldByCall

\* hooks that call back into the instance they are registered on, named by
\* the method they call
ReentrantHooks == {"get", "snapshot", "verify_integrity"}

\* a faulty instance lock that is a plain threading.Lock: it is granted only
\* when nobody holds it
LockAcquire(depth) == IF depth = 0 THEN Some(1) ELSE None

\* self.__lock.acquire() by the thread that may already hold it: an RLock is
\* granted to its owner again and counts how often it was taken
RLockAcquire(depth) == Some(depth + 1)

\* the main thread calls update, use_once or restore_from_snapshot with
\* hooks registered that call back: the call takes the lock, commits,
\* reseals and reaches hooks.run; a call that raises, or that returns
\* before the hook run, is through in this step
HookedCall(op, batch) ==
    /\ constructed
    /\ LockFree
    /\ ~LockHeldByBlock
    /\ hooks # <<>>
    /\ \A i \in 1..Len(hooks) : hooks[i] \in ReentrantHooks
    /\ LET out == IF op = "restore_from_snapshot"
                  THEN RestoreOutcome(batch, FALSE)
                  ELSE Mutate(batch, FALSE, "", op = "update", op)
       IN  /\ config' = out.config
           /\ use_once' = out.use_once
           /\ last_snapshot' = out.last_snapshot
           /\ last_checksum' = out.last_checksum
           /\ meta' = out.meta
           /\ hook_seen' = out.hook_seen
           /\ resolve_cache' = Remember(out.touched)
           /\ IF out.err # "ok" \/ (op = "restore_from_snapshot" /\ batch = <<>>)
              THEN /\ last' = [Call(op, out.err, NoneVal) EXCEPT
                                  !.detail = out.detail]
                   /\ UNCHANGED outer_call
              ELSE /\ outer_call' = Some([op |-> op, pc |-> "hook", depth |-> 1,
                                    rest |-> hooks, got |-> <<>>])
                   /\ UNCHANGED last
    /\ UNCHANGED checker_vars
    /\ UNCHANGED <<writer, reader>>
    /\ UNCHANGED <<specs, aliases, bypass_env, constructed, mutable_types,
                   torn_down, locked, hooks, temp_stack, teardown_calls,
                   caller_obj, checksums, waiting, threads>>

\* the hook that is running calls get, snapshot or verify_integrity on the
\* instance: the call passes the decorator and takes the lock once more
HookAcquire ==
    /\ outer_call # None
    /\ outer_call[1].pc = "hook"
    /\ outer_call[1].rest # <<>>
    /\ RLockAcquire(outer_call[1].depth) # None
    /\ outer_call' = Some([outer_call[1] EXCEPT
                              !.pc = "inner",
                              !.depth = RLockAcquire(outer_call[1].depth)[1]])
    /\ UNCHANGED checker_vars
    /\ UNCHANGED <<writer, reader>>
    /\ UNCHANGED <<specs, aliases, resolve_cache, bypass_env, constructed,
                   mutable_types, torn_down, locked, config, use_once,
                   last_snapshot, last_checksum, hooks, hook_seen, meta,
                   temp_stack, teardown_calls, last, caller_obj, checksums,
                   waiting, threads>>

\* what the method the hook has called returns to it
HookReturn(kind, r) ==
    CASE kind = "get" -> [call |-> kind, res |-> r.res, ret |-> r.ret]
      [] kind = "snapshot" ->
            [call |-> kind, res |-> "ok",
             ret |-> [type |-> "mappingproxy", num |-> 0,
                      map |-> [k \in DOMAIN config |-> DeepCopy(config[k], "got")]]]
      [] OTHER -> [call |-> kind, res |-> "ok", ret |-> BoolVal(Verify)]

\* the method the hook has called runs under the lock, returns to the hook
\* and gives the lock back once; the hook returns and the run goes on
HookInner ==
    /\ outer_call # None
    /\ outer_call[1].pc = "inner"
    /\ LET kind == Head(outer_call[1].rest)
           r == GetOutcome("MAX_CONCURRENCY")
       IN  /\ outer_call' = Some([outer_call[1] EXCEPT
                               !.pc = "hook", !.depth = @ - 1, !.rest = Tail(@),
                               !.got = Append(@, HookReturn(kind, r))])
           /\ IF kind = "get"
              THEN use_once' = r.use_once /\ resolve_cache' = Remember(r.touched)
              ELSE UNCHANGED <<use_once, resolve_cache>>
    /\ UNCHANGED checker_vars
    /\ UNCHANGED <<writer, reader>>
    /\ UNCHANGED <<specs, aliases, bypass_env, constructed, mutable_types,
                   torn_down, locked, config, last_snapshot, last_checksum,
                   hooks, hook_seen, meta, temp_stack, teardown_calls, last,
                   caller_obj, checksums, waiting, threads>>

\* hooks.run is through: the call returns and releases the lock
HookedReturn ==
    /\ outer_call # None
    /\ outer_call[1].pc = "hook"
    /\ outer_call[1].rest = <<>>
    /\ last' = Call(outer_call[1].op, "ok", NoneVal)
    /\ outer_call' = None
    /\ UNCHANGED checker_vars
    /\ UNCHANGED <<writer, reader>>
    /\ UNCHANGED <<specs, aliases, resolve_cache, bypass_env, constructed,
                   mutable_types, torn_down, locked, config, use_once,
                   last_snapshot, last_checksum, hooks, hook_seen, meta,
                   temp_stack, teardown_calls, caller_obj, checksums, waiting,
                   threads>>

\* the steps of a call that is running its hooks
HookStep == HookAcquire \/ HookInner \/ HookedReturn

\* the operations a thread calls
ThreadOps == {"get", "update", "use_once", "restore_from_snapshot"}

\* thread t calls op: the is_torn_down decorator tests the flag, get resolves
\* its key and copies the spec's default, and then the thread waits for the
\* instance lock; nothing of this is done under the lock
ThreadEnter(t, op, key, batch) ==
    /\ constructed
    /\ threads[t].pc = "idle"
    /\ LET found == IF op = "get" THEN ResolveAndGet(key) ELSE None
           call == [IdleThread EXCEPT !.op = op, !.batch = batch]
       IN  IF torn_down
           THEN /\ threads' = [threads EXCEPT ![t] =
                       [call EXCEPT !.pc = "done", !.res = "ConfigTornDownError"]]
                /\ UNCHANGED resolve_cache
           ELSE IF op # "get"
           THEN /\ threads' = [threads EXCEPT ![t] = [call EXCEPT !.pc = "waiting"]]
                /\ UNCHANGED resolve_cache
           ELSE IF found = None
           THEN /\ threads' = [threads EXCEPT ![t] =
                       [call EXCEPT !.pc = "done", !.res = "ConfigNotFoundError"]]
                /\ resolve_cache' = Remember({key})
           ELSE /\ threads' = [threads EXCEPT ![t] =
                       [call EXCEPT !.pc = "waiting", !.key = found[1].name,
                                    !.default = ImmutableCopy(found[1].spec.default)]]
                /\ resolve_cache' = Remember({key, found[1].name})
    /\ UNCHANGED checker_vars
    /\ UNCHANGED <<writer, reader>>
    /\ UNCHANGED outer_call
    /\ UNCHANGED <<specs, aliases, bypass_env, constructed, mutable_types,
                   torn_down, locked, config, use_once, last_snapshot,
                   last_checksum, hooks, hook_seen, meta, temp_stack,
                   teardown_calls, last, caller_obj, checksums, waiting>>

\* thread t takes the instance lock.  get runs ConfigStore.get and returns;
\* update, use_once and restore_from_snapshot run as far as the reseal: the
\* store and the metadata are written, and the thread keeps the lock
ThreadProceed(t) ==
    /\ threads[t].pc = "waiting"
    /\ LockFree
    /\ ~LockHeldByBlock
    /\ IF threads[t].op = "get"
       THEN LET r == StoreGet(config, use_once, threads[t].key, threads[t].default)
            IN  /\ use_once' = r.use_once
                /\ threads' = [threads EXCEPT ![t] =
                       [@ EXCEPT !.pc = "done", !.res = "ok", !.ret = r.ret]]
                /\ UNCHANGED <<config, meta, resolve_cache>>
       ELSE LET out == Proceeding(threads[t])
            IN  /\ config' = out.config
                /\ use_once' = out.use_once
                /\ meta' = out.meta
                /\ resolve_cache' = Remember(out.touched)
                /\ threads' = [threads EXCEPT ![t] =
                       IF out.err = "ok"
                       THEN [@ EXCEPT !.pc = "sealing", !.out = Some(out)]
                       ELSE [@ EXCEPT !.pc = "done", !.res = out.err]]
    /\ UNCHANGED checker_vars
    /\ UNCHANGED <<writer, reader>>
    /\ UNCHANGED outer_call
    /\ UNCHANGED <<specs, aliases, bypass_env, constructed, mutable_types,
                   torn_down, locked, last_snapshot, last_checksum, hooks,
                   hook_seen, temp_stack, teardown_calls, last, caller_obj,
                   checksums, waiting>>

\* thread t reseals, runs the hooks, returns and releases the lock
ThreadSeal(t) ==
    /\ threads[t].pc = "sealing"
    /\ last_snapshot' = threads[t].out[1].last_snapshot
    /\ last_checksum' = threads[t].out[1].last_checksum
    /\ hook_seen' = threads[t].out[1].hook_seen
    /\ threads' = [threads EXCEPT ![t] =
           [@ EXCEPT !.pc = "done", !.res = "ok", !.out = None]]
    /\ UNCHANGED checker_vars
    /\ UNCHANGED <<writer, reader>>
    /\ UNCHANGED outer_call
    /\ UNCHANGED <<specs, aliases, resolve_cache, bypass_env, constructed,
                   mutable_types, torn_down, locked, config, use_once, hooks,
                   meta, temp_stack, teardown_calls, last, caller_obj,
                   checksums, waiting>>

\* the calls that take the instance lock
NextCall ==
    \/ \E b \in Batches, bp \in BOOLEAN, r \in Reasons : Update(b, bp, r)
    \/ \E b \in Batches, bp \in BOOLEAN, r \in Reasons : UseOnce(b, bp, r)
    \/ \E b \in Batches, bp \in BOOLEAN : RestoreFromSnapshot(b, bp)
    \/ \E k \in Spellings : Get(k)
    \/ \E b \in Batches, bp \in BOOLEAN : TempUpdateEnter(b, bp)
    \/ \E r \in BOOLEAN : TempUpdateExit(r)
    \/ VerifyIntegrity
    \/ Teardown
    \/ Lock
    \/ \E bp \in BOOLEAN : Unlock(bp)
    \/ \E op \in ReadOps : Read(op)
    \/ \E f \in HookKinds : RegisterPostUpdateHook(f)
    \/ \E k \in RawKeys, v \in Values : SetItem(k, v)
    \/ \E k \in RawKeys : DelItem(k)

\* a teardown() call taken statement by statement
TeardownStep == TeardownBegin \/ StopSet \/ StopJoin \/ TeardownClear

\* a step of the checker thread
CheckerStep == CheckerTest \/ CheckerVerify \/ CheckerWait

Next ==
    \/ \E spec \in RegSpecs, als \in AliasTuples, ov \in BOOLEAN :
          RegisterParam(spec, als, ov)
    \/ RegistryClear
    \/ \E k \in Spellings : ResolveName(k)
    \/ \E k \in Spellings : RegistryResolveName(k)
    \/ \E b \in BOOLEAN : SetEnv(b)
    \/ \E iv \in InitialValues, bs, im \in BOOLEAN : Construct(iv, bs, FALSE, im)
    \/ LockFree /\ NextCall
    \/ TeardownStep
    \/ CheckerStep
    \/ \E kind \in Kinds : CallerMutates(kind)
    \/ MutateReturned
    \/ \E data \in ChecksumDicts : ChecksumCall(data)
    \/ \E op \in WaitingOps, b \in Batches : Enter(op, b)
    \/ Proceed
    \/ ProceedWrite
    \/ ProceedSeal
    \/ \E t \in Threads, op \in ThreadOps, key \in RawKeys, b \in Batches :
          ThreadEnter(t, op, key, b)
    \/ \E t \in Threads : ThreadProceed(t)
    \/ \E t \in Threads : ThreadSeal(t)
    \/ \E op \in WaitingOps, b \in Batches : HookedCall(op, b)
    \/ HookStep
    \/ \E spec \in RegSpecs, als \in AliasTuples, ov \in BOOLEAN :
          RegisterBegin(spec, als, ov)
    \/ ClearSpecs
    \/ WriterStep
    \/ \E k \in Spellings : ReaderResolve(k)
    \/ ReaderFetch
    \/ ReaderReturn

Spec == Init /\ [][Next]_vars

(***************************************************************************)
(* Scenarios: the same actions restricted to the calls and arguments a     *)
(* group of properties is about.  Every step of a scenario is a step of    *)
(* Next, so every behaviour of a scenario is a behaviour of Spec.          *)
(***************************************************************************)
\* the lock guard and the bypass signal: every mutating call, locked or not,
\* with and without _bypass, with the signal present or absent
LockBatches == BatchesOver({IntVal(500), BoolVal(TRUE)})

\* the snapshots restored in this scenario: none, or both parameters
LockRestores ==
    {<<>>, <<<<"MAX_CONCURRENCY", IntVal(500)>>, <<"VERIFY", BoolVal(TRUE)>>>>}

NextLock ==
    \/ \E b \in BOOLEAN : SetEnv(b)
    \/ \E bs, im \in BOOLEAN : Construct(EmptyDict, bs, FALSE, im)
    \/ Lock
    \/ \E bp \in BOOLEAN : Unlock(bp)
    \/ \E b \in LockBatches, bp \in BOOLEAN : Update(b, bp, "")
    \/ \E b \in LockBatches, bp \in BOOLEAN : UseOnce(b, bp, "")
    \/ \E b \in LockRestores, bp \in BOOLEAN : RestoreFromSnapshot(b, bp)
    \/ \E b \in LockBatches, bp \in BOOLEAN : temp_stack = <<>> /\ TempUpdateEnter(b, bp)
    \/ TempUpdateExit(FALSE)
    \/ \E k \in RawKeys, v \in {IntVal(500)} : SetItem(k, v)
    \/ \E k \in RawKeys : DelItem(k)

SpecLock == Init /\ [][NextLock]_vars

\* the life cycle: every public method before and after teardown
LifeBatches == {<<>>, <<<<"MAX_CONCURRENCY", IntVal(500)>>>>}

NextLife ==
    \/ \E im \in BOOLEAN : Construct(EmptyDict, FALSE, FALSE, im)
    \/ Teardown
    \/ VerifyIntegrity
    \/ \E b \in LifeBatches : Update(b, FALSE, "")
    \/ \E b \in LifeBatches : UseOnce(b, FALSE, "")
    \/ \E b \in LifeBatches : RestoreFromSnapshot(b, FALSE)
    \/ \E b \in LifeBatches : temp_stack = <<>> /\ TempUpdateEnter(b, FALSE)
    \/ TempUpdateExit(FALSE)
    \/ Get("MAX_CONCURRENCY")
    \/ \E op \in ReadOps : Read(op)
    \/ RegisterPostUpdateHook("observe")
    \/ Lock
    \/ Unlock(FALSE)
    \/ SetItem("MAX_CONCURRENCY", IntVal(500))
    \/ DelItem("MAX_CONCURRENCY")

SpecLife == Init /\ [][NextLife]_vars

\* one-time values and nested temp_update blocks around ordinary updates
TempBatches == BatchesOver({IntVal(10), IntVal(500), BoolVal(TRUE)})

NextTemp ==
    \/ Construct(EmptyDict, FALSE, FALSE, FALSE)
    \/ \E b \in TempBatches : Update(b, FALSE, "")
    \/ \E b \in TempBatches : UseOnce(b, FALSE, "")
    \/ \E b \in LockRestores : RestoreFromSnapshot(b, FALSE)
    \/ \E k \in RawKeys : Get(k)
    \/ \E b \in TempBatches : TempUpdateEnter(b, FALSE)
    \/ \E r \in BOOLEAN : TempUpdateExit(r)

SpecTemp == Init /\ [][NextTemp]_vars

\* the registry on its own: registrations with and without override, clear,
\* and both ways of resolving a key in between
RegistryKeys == {" Verify ", "timeout", "UNKNOWN_KEY"}
RegistrySpecs == {ParamSpecs["VERIFY"], ParamSpecs["REQUEST_TIMEOUT"]}
RegistryAliases == {<<>>, <<"timeout">>, <<"verify", "timeout">>}

NextRegistry ==
    \/ \E spec \in RegistrySpecs, als \in RegistryAliases, ov \in BOOLEAN :
          RegisterParam(spec, als, ov)
    \/ RegistryClear
    \/ \E k \in RegistryKeys : ResolveName(k)
    \/ \E k \in RegistryKeys : RegistryResolveName(k)

SpecRegistry == Init /\ [][NextRegistry]_vars

\* batches that mix valid values, invalid values and the unregistered key
BatchValues == {IntVal(0), IntVal(500), BoolVal(TRUE)}
MixedBatches == BatchesOf(RawKeys, BatchValues)

NextBatch ==
    \/ Construct(EmptyDict, FALSE, FALSE, FALSE)
    \/ \E b \in MixedBatches : Update(b, FALSE, "")
    \/ \E b \in MixedBatches : UseOnce(b, FALSE, "")
    \/ \E b \in MixedBatches : RestoreFromSnapshot(b, FALSE)

SpecBatch == Init /\ [][NextBatch]_vars

\* the bounds of MAX_CONCURRENCY: updates at, inside and outside the bounds,
\* around one-time values and reads
BoundValues ==
    {IntVal(BoundLo - 1), IntVal(BoundLo), IntVal(500), IntVal(BoundHi),
     IntVal(BoundHi + 1)}

NextBounds ==
    \/ Construct(EmptyDict, FALSE, FALSE, FALSE)
    \/ \E v \in BoundValues : Update(<<<<"MAX_CONCURRENCY", v>>>>, FALSE, "")
    \/ \E v \in BoundValues : UseOnce(<<<<"MAX_CONCURRENCY", v>>>>, FALSE, "")
    \/ Get("MAX_CONCURRENCY")
    \/ Lock

SpecBounds == Init /\ [][NextBounds]_vars

\* writes of valid and invalid values with and without _bypass, the
\* authorization signal present or absent
BypassBatches == BatchesOf({"MAX_CONCURRENCY"}, {IntVal(0), IntVal(500)})

NextBypass ==
    \/ \E b \in BOOLEAN : SetEnv(b)
    \/ \E bs \in BOOLEAN : Construct(EmptyDict, bs, FALSE, FALSE)
    \/ \E b \in BypassBatches, bp \in BOOLEAN : Update(b, bp, "")
    \/ \E b \in BypassBatches, bp \in BOOLEAN : UseOnce(b, bp, "")
    \/ \E b \in BypassBatches, bp \in BOOLEAN : RestoreFromSnapshot(b, bp)
    \/ \E b \in BypassBatches, bp \in BOOLEAN :
          temp_stack = <<>> /\ TempUpdateEnter(b, bp)
    \/ TempUpdateExit(FALSE)

SpecBypass == Init /\ [][NextBypass]_vars

\* a parameter that requires a reason, registered before or after the
\* instance is constructed, and writes with and without a reason
ReasonBatches ==
    BatchesOf({"MAX_CONCURRENCY", "REQUEST_TIMEOUT"},
              {IntVal(30), FloatVal(DefaultTimeout)})

NextReason ==
    \/ RegisterParam(ParamSpecs["REQUEST_TIMEOUT"], <<"request_timeout">>, FALSE)
    \/ Construct(EmptyDict, FALSE, FALSE, FALSE)
    \/ \E b \in ReasonBatches, r \in Reasons : Update(b, FALSE, r)
    \/ \E b \in ReasonBatches, r \in Reasons : UseOnce(b, FALSE, r)
    \/ Get("request_timeout")

SpecReason == Init /\ [][NextReason]_vars

\* aliases, letter case and whitespace: reads and writes through every
\* spelling, around re-registrations that give a parameter a new alias
AliasKeys == {"MAX_CONCURRENCY", "max_concurrency", " Verify ", "timeout", " timeout"}
AliasBatches == BatchesOf({"max_concurrency", " Verify ", "timeout"}, {IntVal(500)})

NextAlias ==
    \/ \E k \in CanonicalKeys, a \in {"timeout", "verify"} :
          RegisterParam(ParamSpecs[k], <<a>>, TRUE)
    \/ Construct(EmptyDict, FALSE, FALSE, FALSE)
    \/ \E k \in AliasKeys : Get(k)
    \/ \E b \in AliasBatches : Update(b, FALSE, "")
    \/ \E b \in AliasBatches : UseOnce(b, FALSE, "")

SpecAlias == Init /\ [][NextAlias]_vars

\* hooks of every kind registered in every order, around updates that
\* succeed and updates that fail
HookBatches == BatchesOf(CanonicalKeys, {IntVal(0), IntVal(500)})

NextHooks ==
    \/ Construct(EmptyDict, FALSE, FALSE, FALSE)
    \/ \E f \in HookKinds : RegisterPostUpdateHook(f)
    \/ \E b \in HookBatches : Update(b, FALSE, "")

SpecHooks == Init /\ [][NextHooks]_vars

\* hooks of every kind around every call that commits: update, use_once,
\* restore_from_snapshot and temp_update blocks, with values that pass and a
\* value that fails validation
NotifyBatches == BatchesOf({"MAX_CONCURRENCY"}, {IntVal(0), IntVal(500)})

NextNotify ==
    \/ Construct(EmptyDict, FALSE, FALSE, FALSE)
    \/ \E f \in HookKinds : RegisterPostUpdateHook(f)
    \/ \E b \in NotifyBatches : Update(b, FALSE, "")
    \/ \E b \in NotifyBatches : UseOnce(b, FALSE, "")
    \/ \E b \in NotifyBatches : RestoreFromSnapshot(b, FALSE)
    \/ \E b \in NotifyBatches : temp_stack = <<>> /\ TempUpdateEnter(b, FALSE)
    \/ TempUpdateExit(FALSE)

SpecNotify == Init /\ [][NextNotify]_vars

\* restores of whole and partial snapshots, through a canonical name and
\* through an alias, with valid and invalid values, around updates, one-time
\* values, temp_update blocks and the lock
RestoreBatches ==
    BatchesOf({"max_concurrency", "VERIFY"}, {IntVal(0), IntVal(500), BoolVal(TRUE)})

NextRestore ==
    \/ Construct(EmptyDict, FALSE, FALSE, FALSE)
    \/ Lock
    \/ Update(<<<<"MAX_CONCURRENCY", IntVal(500)>>>>, FALSE, "")
    \/ UseOnce(<<<<"MAX_CONCURRENCY", IntVal(BoundHi)>>>>, FALSE, "once")
    \/ \E b \in RestoreBatches : RestoreFromSnapshot(b, FALSE)
    \/ \E v \in {IntVal(0), IntVal(BoundLo)} :
          temp_stack = <<>> /\ TempUpdateEnter(<<<<"MAX_CONCURRENCY", v>>>>, FALSE)
    \/ \E r \in BOOLEAN : TempUpdateExit(r)
    \/ Get("MAX_CONCURRENCY")

SpecRestore == Init /\ [][NextRestore]_vars

\* the lock guard through the whole life of an instance: lock and unlock with
\* and without _bypass, the signal present or absent, around mutating calls
\* and teardown
GuardBatches == {<<>>, <<<<"MAX_CONCURRENCY", IntVal(500)>>>>}

NextGuard ==
    \/ \E b \in BOOLEAN : SetEnv(b)
    \/ \E im \in BOOLEAN : Construct(EmptyDict, FALSE, FALSE, im)
    \/ Lock
    \/ \E bp \in BOOLEAN : Unlock(bp)
    \/ \E b \in GuardBatches, bp \in BOOLEAN : Update(b, bp, "")
    \/ \E b \in GuardBatches, bp \in BOOLEAN : UseOnce(b, bp, "")
    \/ \E b \in GuardBatches, bp \in BOOLEAN : RestoreFromSnapshot(b, bp)
    \/ Teardown

SpecGuard == Init /\ [][NextGuard]_vars

\* collections passed in and handed out: the caller's list and set are
\* written by update, use_once and restore_from_snapshot, read back by get,
\* and changed in place by the caller before, between and after the calls
NextFrame ==
    \/ RegisterParam(FruitSpec, <<>>, FALSE)
    \/ Construct(EmptyDict, FALSE, FALSE, FALSE)
    \/ \E kind \in Kinds :
          Update(<<<<"FRUIT_LIST", CallerObject(kind)>>>>, FALSE, "")
    \/ \E kind \in Kinds :
          UseOnce(<<<<"FRUIT_LIST", CallerObject(kind)>>>>, FALSE, "")
    \/ \E kind \in Kinds :
          RestoreFromSnapshot(<<<<"FRUIT_LIST", CallerObject(kind)>>>>, FALSE)
    \/ Get("FRUIT_LIST")
    \/ \E kind \in Kinds : CallerMutates(kind)
    \/ MutateReturned

SpecFrame == Init /\ [][NextFrame]_vars

\* teardown against the mutating calls of another thread: teardown() taken
\* statement by statement with the checker it joins, and a call that tests
\* the flag, waits for the lock and runs
RaceBatches == {<<<<"MAX_CONCURRENCY", v>>>> : v \in {IntVal(0), IntVal(500)}}

NextRace ==
    \/ Construct(EmptyDict, FALSE, FALSE, FALSE)
    \/ \E op \in WaitingOps, b \in RaceBatches : Enter(op, b)
    \/ Proceed
    \/ LockFree /\ VerifyIntegrity
    \/ TeardownStep
    \/ CheckerStep

SpecRace == Init /\ [][NextRace]_vars

\* the lock-free checker against the reseals of other threads' calls: the
\* two assignments of update_snapshot are two steps, and the checker polls
\* before, between and after them
SealBatches ==
    {<<<<"MAX_CONCURRENCY", v>>>> : v \in {IntVal(0), IntVal(10), IntVal(500)}}

NextSeal ==
    \/ Construct(EmptyDict, FALSE, FALSE, FALSE)
    \/ \E op \in WaitingOps, b \in SealBatches : Enter(op, b)
    \/ Proceed
    \/ ProceedWrite
    \/ ProceedSeal
    \/ CheckerStep

SpecSeal == Init /\ [][NextSeal]_vars

\* threads that call get and update on one instance at the same time, after
\* the main thread has made one use_once call
ThreadBatches ==
    {<<<<"MAX_CONCURRENCY", IntVal(500)>>, <<"VERIFY", BoolVal(FALSE)>>>>,
     <<<<"MAX_CONCURRENCY", IntVal(20)>>>>}

AllIdle == \A t \in Threads : threads[t].pc = "idle"

NextThreads ==
    \/ Construct(EmptyDict, FALSE, FALSE, FALSE)
    \/ /\ AllIdle
       /\ use_once = EmptyDict
       /\ UseOnce(<<<<"MAX_CONCURRENCY", IntVal(500)>>>>, FALSE, "")
    \/ \E t \in Threads : ThreadEnter(t, "get", "MAX_CONCURRENCY", <<>>)
    \/ \E t \in Threads, b \in ThreadBatches : ThreadEnter(t, "update", "", b)
    \/ \E t \in Threads : ThreadProceed(t)
    \/ \E t \in Threads : ThreadSeal(t)

SpecThreads == Init /\ [][NextThreads]_vars

\* a temp_update block of the main thread while other threads call get,
\* update, use_once and restore_from_snapshot
TempValue == IntVal(77)

HoldBatches == {<<<<"MAX_CONCURRENCY", IntVal(20)>>>>}

NextHold ==
    \/ Construct(EmptyDict, FALSE, FALSE, FALSE)
    \/ LockFree /\ TempUpdateEnter(<<<<"MAX_CONCURRENCY", TempValue>>>>, FALSE)
    \/ \E raised \in BOOLEAN : TempUpdateExit(raised)
    \/ \E t \in Threads : ThreadEnter(t, "get", "MAX_CONCURRENCY", <<>>)
    \/ \E t \in Threads, op \in ThreadOps \ {"get"}, b \in HoldBatches :
          ThreadEnter(t, op, "", b)
    \/ \E t \in Threads : ThreadProceed(t)
    \/ \E t \in Threads : ThreadSeal(t)

SpecHold == Init /\ [][NextHold]_vars

\* hooks that call back into the instance, around calls that commit and a
\* call that fails; a thread that runs keeps running
ReenterBatches ==
    {<<<<"MAX_CONCURRENCY", v>>>> : v \in {IntVal(0), IntVal(500)}} \cup {<<>>}

NextReenter ==
    \/ Construct(EmptyDict, FALSE, FALSE, FALSE)
    \/ \E f \in ReentrantHooks : LockFree /\ RegisterPostUpdateHook(f)
    \/ \E op \in WaitingOps, b \in ReenterBatches : HookedCall(op, b)
    \/ HookStep

SpecReenter == Init /\ [][NextReenter]_vars /\ WF_vars(HookStep)

\* one thread registers and clears while another reads the registry
TornSpecs == {ParamSpecs["VERIFY"], ParamSpecs["REQUEST_TIMEOUT"]}
TornAliases == {<<>>, <<"timeout">>, <<"verify", "timeout">>}
TornKeys == {"VERIFY", "REQUEST_TIMEOUT", "timeout", "UNKNOWN_KEY"}

NextTorn ==
    \/ \E spec \in TornSpecs, als \in TornAliases, ov \in BOOLEAN :
          RegisterBegin(spec, als, ov)
    \/ ClearSpecs
    \/ WriterStep
    \/ \E k \in TornKeys : ReaderResolve(k)
    \/ ReaderFetch
    \/ ReaderReturn

SpecTorn == Init /\ [][NextTorn]_vars

\* the checksum as a function: any mapping after any other
NextChecksum == \E data \in ChecksumDicts : ChecksumCall(data)

SpecChecksum == Init /\ [][NextChecksum]_vars

\* the background checker against teardown: the checker thread and a
\* teardown() call taken statement by statement, between updates and
\* integrity checks of the caller
CheckerValues == {IntVal(0), IntVal(500)}

NextChecker ==
    \/ Construct(EmptyDict, FALSE, FALSE, FALSE)
    \/ \E v \in CheckerValues :
          LockFree /\ Update(<<<<"MAX_CONCURRENCY", v>>>>, FALSE, "")
    \/ LockFree /\ VerifyIntegrity
    \/ TeardownStep
    \/ CheckerStep

\* a teardown() call that has begun goes on: nothing but the join holds it
TeardownProceeds == StopSet \/ StopJoin \/ TeardownClear

\* fair scheduling: the checker thread and a begun teardown() call both get
\* to run
SpecChecker ==
    /\ Init
    /\ [][NextChecker]_vars
    /\ WF_vars(CheckerStep)
    /\ WF_vars(TeardownProceeds)

(***************************************************************************)
(* Properties of the lock guard and the bypass signal (SpecLock).          *)
(***************************************************************************)
\* the instance exists and has not been torn down
Active == constructed /\ ~torn_down

\* every item names a registered parameter and carries a value that satisfies
\* its ParamSpec and keeps the type of the value stored for it
ValidValues(batch) ==
    \A i \in 1..Len(batch) :
        /\ batch[i][1] \in DOMAIN specs
        /\ SpecValidate(specs[batch[i][1]], batch[i][2])
        /\ CheckType(config, batch[i][1], batch[i][2], specs[batch[i][1]],
                     mutable_types)

\* the permanent layer after the step holds every item of the batch
Committed(batch) ==
    \A i \in 1..Len(batch) :
        /\ batch[i][1] \in DOMAIN config'
        /\ config'[batch[i][1]] = batch[i][2]

\* C1: on an active, locked instance update without _bypass fails with
\* ConfigLockedError and changes neither layer; update with _bypass, the
\* authorization signal present and valid values commits every value to the
\* permanent layer.
LockGating ==
    [][\A b \in LockBatches :
          /\ (Active /\ locked /\ last'.op = "update" /\ Update(b, FALSE, ""))
                => /\ last'.res = "ConfigLockedError"
                   /\ UNCHANGED <<config, use_once>>
          /\ (Active /\ locked /\ bypass_env /\ last'.op = "update" /\ ValidValues(b)
                 /\ Update(b, TRUE, ""))
                => /\ last'.res = "ok"
                   /\ Committed(b)]_vars

\* a locked instance whose last call was an update that went through (which
\* only an authorized bypass allows) and left 500 in the permanent layer
LockedBypassCommitted ==
    /\ Active /\ locked /\ bypass_env
    /\ last = Call("update", "ok", NoneVal)
    /\ "MAX_CONCURRENCY" \in DOMAIN config
    /\ config["MAX_CONCURRENCY"] = IntVal(500)
    /\ meta = MetaSet("")

\* a call of temp_update with a non-empty batch of registered keys
TempUpdateCall(b, bp) ==
    /\ b # <<>>
    /\ \A i \in 1..Len(b) : b[i][1] \in DOMAIN specs
    /\ temp_stack = <<>>
    /\ TempUpdateEnter(b, bp)

\* a mutating call with a non-empty batch of registered keys
MutatingCall(b, bp) ==
    \/ /\ b # <<>>
       /\ \A i \in 1..Len(b) : b[i][1] \in DOMAIN specs
       /\ \/ Update(b, bp, "")
          \/ UseOnce(b, bp, "")
          \/ RestoreFromSnapshot(b, bp)
    \/ TempUpdateCall(b, bp)

\* C2: while an active instance is locked, every mutating call made without
\* _bypass (update, use_once, restore_from_snapshot, temp_update, item
\* assignment, item deletion) fails with ConfigLockedError and leaves the
\* permanent and the ephemeral layer as they were.
LockedCallsRejected ==
    [][(Active /\ locked) =>
          /\ \A b \in LockBatches \cup LockRestores :
                MutatingCall(b, FALSE)
                    => /\ last'.res = "ConfigLockedError"
                       /\ UNCHANGED <<config, use_once>>
          /\ \A k \in DOMAIN specs :
                (SetItem(k, IntVal(500)) \/ DelItem(k))
                    => /\ last'.res = "ConfigLockedError"
                       /\ UNCHANGED <<config, use_once>>]_vars

\* C3: with the authorization signal absent, every call carrying _bypass
\* (update, use_once, restore_from_snapshot, temp_update, unlock, construction
\* with _bypass in the initial values) fails with ConfigBypassError, locked or
\* not, and leaves both layers and the lock flag unchanged.
BypassNeedsSignal ==
    [][~bypass_env =>
          /\ \A b \in LockBatches \cup LockRestores :
                (Active /\ MutatingCall(b, TRUE))
                    => /\ last'.res = "ConfigBypassError"
                       /\ UNCHANGED <<config, use_once, locked>>
          /\ (Active /\ Unlock(TRUE))
                => /\ last'.res = "ConfigBypassError"
                   /\ UNCHANGED <<config, use_once, locked>>
          /\ \A im \in BOOLEAN :
                (DOMAIN specs # {} /\ Construct(EmptyDict, TRUE, FALSE, im))
                    => /\ last'.res = "ConfigBypassError"
                       /\ UNCHANGED <<config, use_once, locked>>]_vars

\* C9: on every exit path of temp_update (leaving the block, or failing while
\* the values are validated or applied) the permanent layer is the one captured
\* on entry, the checksum is the one captured on entry, and verify_integrity()
\* is true whenever it was true on entry.
TempUpdateRestores ==
    [][Active =>
          /\ (temp_stack # <<>> /\ TempUpdateExit(FALSE))
                => /\ config' = Head(temp_stack).prior_config
                   /\ last_checksum' = Head(temp_stack).prior_checksum
                   /\ Head(temp_stack).entry_verify => Verify'
          /\ \A b \in LockBatches, bp \in BOOLEAN :
                (temp_stack = <<>> /\ TempUpdateEnter(b, bp) /\ last'.res # "ok")
                    => /\ config' = config
                       /\ last_checksum' = last_checksum
                       /\ Verify => Verify']_vars

\* C10: update, use_once and restore_from_snapshot are all-or-nothing: when one
\* of them raises, both layers, the integrity snapshot and checksum, the
\* last-modified metadata and what the hooks have seen are as before the call.
AllOrNothing ==
    [][(/\ last'.op \in {"update", "use_once", "restore_from_snapshot"}
        /\ last'.res # "ok")
          => UNCHANGED <<config, use_once, last_snapshot, last_checksum, meta,
                         hook_seen>>]_vars

(***************************************************************************)
(* Properties of the life cycle (SpecLife).                                *)
(***************************************************************************)
\* C4: once teardown() has completed, every public operation other than
\* verify_integrity and teardown fails with ConfigTornDownError and the store
\* stays empty.
TornDownBlocksAll ==
    (torn_down /\ last.op \notin {"teardown", "verify_integrity"})
        => /\ last.res = "ConfigTornDownError"
           /\ config = EmptyDict
           /\ use_once = EmptyDict

\* what teardown() leaves behind
TornDownState ==
    /\ torn_down
    /\ config = EmptyDict
    /\ use_once = EmptyDict
    /\ hooks = <<>>
    /\ last_snapshot = None
    /\ last_checksum = None
    /\ meta = MetaCleared

\* C5: teardown() is one-way and idempotent: no step clears the torn_down
\* flag, and every teardown(), the first as well as any later one, returns
\* without raising and leaves both layers empty, no hooks, no snapshot, no
\* checksum and the metadata cleared.
TeardownOneWay ==
    [][/\ torn_down => torn_down'
       /\ (last'.op = "teardown") => (last'.res = "ok" /\ TornDownState')]_vars

\* teardown() has just returned for the second time
SecondTeardown ==
    /\ teardown_calls = 2
    /\ last = Call("teardown", "ok", NoneVal)
    /\ TornDownState

\* C6: right after construction and after every successful update or
\* restore_from_snapshot verify_integrity() is true; in every state after
\* teardown() it is false.
IntegritySelfConsistent ==
    /\ (/\ ~torn_down
        /\ last.res = "ok"
        /\ last.op \in {"construct", "update", "restore_from_snapshot"}) => Verify
    /\ torn_down => ~Verify

(***************************************************************************)
(* Properties of one-time values and temp_update blocks (SpecTemp).        *)
(***************************************************************************)
\* what get(k) would return now
Served(k) == StoreGet(config, use_once, k, specs[k].default).ret

\* C7: a successful use_once(K=v) leaves v as the pending one-time value of K,
\* replacing an earlier one; get(K) with a pending value returns it and removes
\* the entry; get(K) without one returns the permanent value of K, or the
\* default, and leaves the ephemeral layer alone.
ConsumeOnce ==
    [][/\ \A b \in TempBatches :
            (Active /\ last'.op = "use_once" /\ last'.res = "ok" /\ UseOnce(b, FALSE, ""))
                => \A i \in 1..Len(b) :
                      /\ b[i][1] \in DOMAIN use_once'
                      /\ use_once'[b[i][1]] = b[i][2]
       /\ \A k \in DOMAIN specs :
            (Active /\ last'.op = "get" /\ Get(k))
                => IF k \in DOMAIN use_once
                   THEN /\ last'.ret = use_once[k]
                        /\ k \notin DOMAIN use_once'
                   ELSE /\ last'.ret = (IF k \in DOMAIN config THEN config[k]
                                        ELSE specs[k].default)
                        /\ UNCHANGED use_once]_vars

\* get has just served 500 for a parameter whose permanent value is 10, and
\* nothing is pending any more
OneTimeValueServed ==
    /\ Active
    /\ last = Call("get", "ok", IntVal(500))
    /\ "MAX_CONCURRENCY" \in DOMAIN config
    /\ config["MAX_CONCURRENCY"] = IntVal(10)
    /\ use_once = EmptyDict

\* temp_update(b) has applied its values and reached its body
BlockEntered(b) ==
    Active /\ last'.op = "temp_update" /\ last'.res = "ok" /\ TempUpdateEnter(b, FALSE)

\* leaving the innermost block puts back what get returned when it was entered
\* and uncovers the enclosing block
BlockLeft ==
    \A r \in BOOLEAN :
        (Active /\ temp_stack # <<>> /\ last'.op = "temp_update_exit" /\ TempUpdateExit(r))
            => /\ temp_stack' = Tail(temp_stack)
               /\ config' = Head(temp_stack).prior_config
               /\ \A k \in DOMAIN config' : Served(k)' = config'[k]

\* C8 as stated: blocks unwind in LIFO order, and while a block is active get
\* returns the block's value for every key the block has set.
NestedLifoAlwaysServed ==
    [][/\ \A b \in TempBatches :
            BlockEntered(b)
                => /\ Head(temp_stack').prior_config = config
                   /\ Tail(temp_stack') = temp_stack
                   /\ \A i \in 1..Len(b) : Served(b[i][1])' = b[i][2]
       /\ BlockLeft]_vars

\* C8: blocks unwind in LIFO order: entering a block records the permanent
\* layer of that moment on top of the enclosing blocks and puts the block's
\* values into the permanent layer, where get returns them unless a one-time
\* value is pending for the key; leaving the innermost block, normally or by
\* raising, restores the layer recorded at its entry.
NestedLifo ==
    [][/\ \A b \in TempBatches :
            BlockEntered(b)
                => /\ Head(temp_stack').prior_config = config
                   /\ Tail(temp_stack') = temp_stack
                   /\ \A i \in 1..Len(b) :
                        /\ config'[b[i][1]] = b[i][2]
                        /\ b[i][1] \notin DOMAIN use_once' => Served(b[i][1])' = b[i][2]
       /\ BlockLeft]_vars

\* an inner block has just been left by raising: the enclosing block is still
\* active with its 500, and the original 10 waits in its frame
InnerBlockRaised ==
    /\ Active
    /\ Len(temp_stack) = 1
    /\ last = Call("temp_update_exit", "BodyError", NoneVal)
    /\ "MAX_CONCURRENCY" \in DOMAIN config
    /\ config["MAX_CONCURRENCY"] = IntVal(500)
    /\ temp_stack[1].prior_config["MAX_CONCURRENCY"] = IntVal(10)

(***************************************************************************)
(* Properties of batch validation (SpecBatch).                             *)
(***************************************************************************)
\* the items of a batch that offend: the key is not registered, or the value
\* fails the validate check of the key's spec
Offends(item) ==
    \/ ResolveKey(item[1]) = None
    \/ ~SpecValidate(specs[ResolveKey(item[1])[1]], item[2])

\* the name under which an offending item is reported
ReportedAs(item) ==
    IF ResolveKey(item[1]) = None THEN Canon(item[1])
    ELSE specs[ResolveKey(item[1])[1]].name

\* C11: a batch passed to update, use_once or restore_from_snapshot that holds
\* several offending keys raises one error whose detail mapping has an entry
\* for every offending key of the batch.
AggregatedErrors ==
    [][\A b \in MixedBatches :
          (/\ Active
           /\ last'.op \in {"update", "use_once", "restore_from_snapshot"}
           /\ \/ Update(b, FALSE, "")
              \/ UseOnce(b, FALSE, "")
              \/ RestoreFromSnapshot(b, FALSE)
           /\ Cardinality({i \in 1..Len(b) : Offends(b[i])}) >= 2)
             => /\ last'.res # "ok"
                /\ \A i \in 1..Len(b) : Offends(b[i]) => ReportedAs(b[i]) \in last'.detail]_vars

(***************************************************************************)
(* Properties of the bounds of a numeric parameter (SpecBounds).           *)
(***************************************************************************)
\* lo <= v <= hi for the bounds of MAX_CONCURRENCY
InBounds(v) == BoundLo <= v.num /\ v.num <= BoundHi

\* update(MAX_CONCURRENCY=v) on an active, unlocked instance that knows the
\* parameter
BoundedUpdate(v) ==
    /\ Active
    /\ ~locked
    /\ "MAX_CONCURRENCY" \in DOMAIN specs
    /\ last'.op = "update"
    /\ Update(<<<<"MAX_CONCURRENCY", v>>>>, FALSE, "")

\* C12 as stated: update(K=v) succeeds exactly when lo <= v <= hi; on success
\* get(K) returns v, on failure get(K) returns the value K had before the call.
BoundsEnforcedAlways ==
    [][\A v \in BoundValues :
          BoundedUpdate(v)
             => /\ (last'.res = "ok") <=> InBounds(v)
                /\ InBounds(v) => Served("MAX_CONCURRENCY")' = v
                /\ ~InBounds(v)
                      => Served("MAX_CONCURRENCY")' = config["MAX_CONCURRENCY"]]_vars

\* C12, amended: on an active, unlocked instance update(K=v) succeeds exactly when
\* lo <= v <= hi; on success the permanent value of K is v, on failure both
\* layers are as before the call; afterwards get(K) returns the pending
\* one-time value of K when there is one, and the permanent value otherwise.
BoundsEnforced ==
    [][\A v \in BoundValues :
          BoundedUpdate(v)
             => /\ (last'.res = "ok") <=> InBounds(v)
                /\ InBounds(v) => /\ config'["MAX_CONCURRENCY"] = v
                                  /\ UNCHANGED use_once
                /\ ~InBounds(v) => UNCHANGED <<config, use_once>>
                /\ Served("MAX_CONCURRENCY")'
                      = IF "MAX_CONCURRENCY" \in DOMAIN use_once
                        THEN use_once["MAX_CONCURRENCY"]
                        ELSE config'["MAX_CONCURRENCY"]]_vars

\* an update to the upper bound has just succeeded while a one-time value of
\* 500 is pending, so the next get returns 500 and not the bound
UpdatedToBoundWhilePending ==
    /\ Active
    /\ last = Call("update", "ok", NoneVal)
    /\ "MAX_CONCURRENCY" \in DOMAIN config
    /\ config["MAX_CONCURRENCY"] = IntVal(BoundHi)
    /\ "MAX_CONCURRENCY" \in DOMAIN use_once
    /\ use_once["MAX_CONCURRENCY"] = IntVal(500)

(***************************************************************************)
(* Properties of the stored values (SpecBypass).                           *)
(***************************************************************************)
\* every value of a layer belongs to a registered parameter and passes the
\* validate check of its spec
LayerValid(layer) ==
    \A k \in DOMAIN layer : k \in DOMAIN specs /\ SpecValidate(specs[k], layer[k])

\* C13: in every reachable state of an active instance, with or without an
\* authorized bypass, every value held in the permanent or the ephemeral
\* layer passes the validate check of its parameter's spec.
StoredValuesValid == Active => (LayerValid(config) /\ LayerValid(use_once))

(***************************************************************************)
(* Properties of type stability (SpecBatch).                               *)
(***************************************************************************)
\* C14: with type drift disallowed, whenever update, use_once or
\* restore_from_snapshot replaces a permanent value of type T by a value of
\* type T', T' is T or one of the types declared in the key's spec; a write
\* that would produce another type leaves the stored value unchanged.
TypeStability ==
    [][(/\ Active
        /\ ~mutable_types
        /\ last'.op \in {"update", "use_once", "restore_from_snapshot"})
          => \A k \in DOMAIN config \cap DOMAIN config' :
                \/ config'[k] = config[k]
                \/ config'[k].type \in {config[k].type} \cup specs[k].value_type]_vars

(***************************************************************************)
(* Properties of require_reason (SpecReason).                              *)
(***************************************************************************)
\* a parameter with require_reason=True is registered
ReasonParamRegistered ==
    /\ "REQUEST_TIMEOUT" \in DOMAIN specs
    /\ specs["REQUEST_TIMEOUT"].require_reason

\* the batch writes the parameter that requires a reason
WritesReasonParam(b) == \E i \in 1..Len(b) : b[i][1] = "REQUEST_TIMEOUT"

\* the target layer after the step holds every item of the batch
Written(b, layer) ==
    \A i \in 1..Len(b) : b[i][1] \in DOMAIN layer /\ layer[b[i][1]] = b[i][2]

\* C15: for a parameter registered with require_reason=True, update and
\* use_once with an empty reason fail and leave the store unchanged, with a
\* non-empty reason and valid values they commit, and an AppConfig can be
\* constructed while such a parameter is registered.
ReasonRequired ==
    [][ReasonParamRegistered =>
          /\ \A b \in ReasonBatches :
                (Active /\ WritesReasonParam(b) /\ ValidValues(b)) =>
                   /\ (Update(b, FALSE, "") \/ UseOnce(b, FALSE, ""))
                         => /\ last'.res # "ok"
                            /\ UNCHANGED <<config, use_once>>
                   /\ Update(b, FALSE, "because")
                         => last'.res = "ok" /\ Written(b, config')
                   /\ UseOnce(b, FALSE, "because")
                         => last'.res = "ok" /\ Written(b, use_once')
          /\ Construct(EmptyDict, FALSE, FALSE, FALSE) => last'.res = "ok"]_vars

(***************************************************************************)
(* Properties of aliases (SpecAlias).                                      *)
(***************************************************************************)
\* the spelling a is, up to letter case and whitespace, a registered alias of
\* the registered parameter p
AliasOf(a, p) ==
    /\ p \in DOMAIN specs
    /\ Canon(a) \in DOMAIN aliases
    /\ aliases[Canon(a)] = p

\* what a call leaves in the two layers and how it ends
Effect(out) == <<out.err, out.config, out.use_once>>

\* C16: for every registered parameter P with alias A, in any letter case and
\* with any surrounding whitespace, get(A) returns what get(P) returns and
\* consumes the same ephemeral entry, and update and use_once through A write
\* the same canonical entry as through P.
AliasEquivalence ==
    [][\A a \in AliasKeys, p \in CanonicalKeys :
          (Active /\ AliasOf(a, p)) =>
             /\ (last'.op = "get" /\ Get(a))
                   => /\ last'.ret = GetOutcome(p).ret
                      /\ use_once' = GetOutcome(p).use_once
             /\ \A permanent \in BOOLEAN :
                   Effect(Mutate(<<<<a, IntVal(500)>>>>, FALSE, "", permanent, "update"))
                      = Effect(Mutate(<<<<p, IntVal(500)>>>>, FALSE, "", permanent,
                                      "update"))]_vars

(***************************************************************************)
(* Properties of the registry and of the cache of resolved names           *)
(* (SpecRegistry).                                                         *)
(***************************************************************************)
\* C17: after any sequence of register_param and REGISTRY.clear calls
\* interleaved with resolve_param_name calls, resolve_param_name(k) returns
\* what REGISTRY.resolve_name(k) returns at that moment: the same canonical
\* name or the same not-found failure.
CacheFollowsRegistry ==
    \A k \in RegistryKeys : ResolveParamName(k) = ResolveKey(k)

AliasTaken(spec, als) ==
    \E i \in 1..Len(als) :
        /\ Canon(als[i]) \in DOMAIN aliases
        /\ aliases[Canon(als[i])] # Canon(spec.name)

\* C19: register with override=False fails with ConfigDuplicateError when the
\* canonical name already exists and with ConfigValidationError when one of
\* its aliases already maps to a different canonical name; in both cases the
\* spec map and the alias map are exactly as before the call.
FailedRegisterKeepsMaps ==
    [][\A spec \in RegistrySpecs, als \in RegistryAliases :
          (last'.op = "register_param" /\ RegisterParam(spec, als, FALSE)) =>
             /\ Canon(spec.name) \in DOMAIN specs
                   => last'.res = "ConfigDuplicateError"
             /\ (Canon(spec.name) \notin DOMAIN specs /\ AliasTaken(spec, als))
                   => last'.res = "ConfigValidationError"
             /\ last'.res # "ok" => UNCHANGED <<specs, aliases>>]_vars

(***************************************************************************)
(* Properties of the post-update hooks (SpecHooks).                        *)
(***************************************************************************)
\* C20: after each successful update every hook registered at that time has
\* been invoked exactly once, before update returns, in registration order,
\* and every hook of the run has received the same post-commit snapshot.
HooksRunInOrder ==
    [][\A b \in HookBatches :
          (/\ Active
           /\ hooks # <<>>
           /\ last'.op = "update"
           /\ last'.res = "ok"
           /\ Update(b, FALSE, ""))
             => hook_seen' = Some([i \in 1..Len(hooks) |->
                                     [hook |-> hooks[i], got |-> config']])]_vars

\* a call that reaches the hook run of _apply_changes or of
\* restore_from_snapshot (an empty snapshot returns before it)
CommitCall(b) ==
    \/ last'.op = "update" /\ Update(b, FALSE, "")
    \/ last'.op = "use_once" /\ UseOnce(b, FALSE, "")
    \/ last'.op = "restore_from_snapshot" /\ b # <<>> /\ RestoreFromSnapshot(b, FALSE)
    \/ last'.op = "temp_update" /\ temp_stack = <<>> /\ TempUpdateEnter(b, FALSE)

\* C21: at every hook invocation made by update, use_once,
\* restore_from_snapshot or temp_update the batch is committed and resealed:
\* the snapshot each hook receives is the permanent layer of that moment and
\* verify_integrity() is true at that moment (nothing changes between the hook
\* run and the return of the call, so that moment's state is the state the
\* call leaves); a call that fails runs no hook.
HooksSeeCommitted ==
    [][\A b \in NotifyBatches :
          (Active /\ hooks # <<>> /\ CommitCall(b)) =>
             IF last'.res = "ok"
             THEN /\ hook_seen' # None
                  /\ \A i \in 1..Len(hook_seen'[1]) : hook_seen'[1][i].got = config'
                  /\ Verify'
             ELSE UNCHANGED hook_seen]_vars

\* the hooks of a sequence that raise
Failing(hs) == {i \in 1..Len(hs) : HookRaises(hs[i])}

\* the first hook of a sequence that raises
FirstFailing(hs) == CHOOSE i \in Failing(hs) : \A j \in Failing(hs) : i <= j

\* the calls are calls of the first n hooks, in order
CallsOfFirst(calls, hs, n) ==
    /\ Len(calls) = n
    /\ \A i \in 1..n : calls[i].hook = hs[i]

HooksFollowCommits ==
    (Active /\ hooks # <<>> /\ hook_seen # None)
        => hook_seen[1][1].got = config

(***************************************************************************)
(* Properties of restore_from_snapshot (SpecRestore).                      *)
(***************************************************************************)
\* every item names a registered parameter, by its name or an alias, and
\* carries a value that passes the validate check of its spec
ValidSnapshot(m) ==
    \A i \in 1..Len(m) :
        /\ ResolveKey(m[i][1]) # None
        /\ SpecValidate(specs[ResolveKey(m[i][1])[1]], m[i][2])

\* the canonical keys of a mapping with the mapping's values
CanonicalItems(m) ==
    [k \in {ResolveKey(m[i][1])[1] : i \in 1..Len(m)} |->
        m[CHOOSE i \in 1..Len(m) : ResolveKey(m[i][1])[1] = k][2]]

\* what get(k) would return from the permanent layer alone
Permanent(k) == IF k \in DOMAIN config THEN config[k] ELSE specs[k].default

\* C24: restore_from_snapshot(m) with an empty m changes no state; with a
\* non-empty valid m, on an active instance whose lock permits the call, it
\* succeeds and replaces the permanent layer wholesale: afterwards the
\* permanent layer holds exactly the canonical keys of m with m's values, a
\* parameter absent from m is no longer in the snapshot, and get on it returns
\* its default.
RestoreReplaces ==
    [][\A m \in RestoreBatches :
          (last'.op = "restore_from_snapshot" /\ RestoreFromSnapshot(m, FALSE)) =>
             /\ m = <<>>
                   => UNCHANGED <<specs, aliases, bypass_env, constructed,
                                  mutable_types, torn_down, locked, config, use_once,
                                  last_snapshot, last_checksum, hooks, hook_seen,
                                  meta, temp_stack>>
             /\ (m # <<>> /\ Active /\ ~locked /\ ValidSnapshot(m))
                   => /\ last'.res = "ok"
                      /\ config' = CanonicalItems(m)
                      /\ \A k \in DOMAIN specs :
                            (\A i \in 1..Len(m) : ResolveKey(m[i][1])[1] # k)
                                => /\ k \notin DOMAIN config'
                                   /\ Served(k)' = specs[k].default]_vars

\* a snapshot that names only VERIFY has just been restored after an update:
\* MAX_CONCURRENCY is gone from the permanent layer
RestoredWithoutConcurrency ==
    /\ Active
    /\ last = Call("restore_from_snapshot", "ok", NoneVal)
    /\ meta = MetaSet("")
    /\ DOMAIN specs = CanonicalKeys
    /\ config = DictSet(EmptyDict, "VERIFY", BoolVal(TRUE))
    /\ Served("MAX_CONCURRENCY") = IntVal(DefaultConcurrency)

\* the ephemeral layer is empty after the step, and get serves every
\* parameter from the permanent layer
NothingPending ==
    /\ use_once' = EmptyDict
    /\ \A k \in DOMAIN specs : Served(k)' = Permanent(k)'

\* the end of a temp_update block: leaving it, or failing to enter it
BlockEnded ==
    \/ last'.op = "temp_update_exit"
    \/ last'.op = "temp_update" /\ last'.res # "ok"

\* C25 as stated: after every successful restore_from_snapshot and after every
\* exit of a temp_update block the ephemeral layer is empty, and get returns
\* no value that was pending before.
OneTimeNeverSurvivesAlways ==
    [][((last'.op = "restore_from_snapshot" /\ last'.res = "ok") \/ BlockEnded)
          => NothingPending]_vars

\* C25, amended: after every successful restore_from_snapshot of a non-empty
\* mapping and after every exit of a temp_update block the ephemeral layer is
\* empty, and get returns no value that was pending before; a restore of the
\* empty mapping returns without touching either layer.
OneTimeNeverSurvives ==
    [][/\ \A m \in RestoreBatches :
            (/\ last'.op = "restore_from_snapshot"
             /\ last'.res = "ok"
             /\ RestoreFromSnapshot(m, FALSE))
               => IF m = <<>> THEN UNCHANGED <<config, use_once>> ELSE NothingPending
       /\ BlockEnded => NothingPending]_vars

\* a snapshot has just been restored on an instance whose last change was a
\* use_once: nothing is pending any more
PendingDroppedByRestore ==
    /\ Active
    /\ last = Call("restore_from_snapshot", "ok", NoneVal)
    /\ meta = MetaSet("once")
    /\ config = DictSet(EmptyDict, "VERIFY", BoolVal(TRUE))
    /\ use_once = EmptyDict

(***************************************************************************)
(* Properties of use_once on the permanent layer (SpecBatch).               *)
(***************************************************************************)
\* C26: use_once leaves the permanent layer unchanged: the permanent layer
\* (which snapshot(), len and membership read) and the integrity checksum
\* (which memory_fingerprint hashes) are the same before and after the call,
\* and the snapshot its hook run passes is the permanent layer, without any
\* value of the ephemeral layer.
UseOnceKeepsPermanent ==
    [][last'.op = "use_once" =>
          /\ UNCHANGED <<config, last_checksum>>
          /\ (last'.res = "ok" /\ hooks # <<>>) => hook_seen'[1][1].got = config]_vars

(***************************************************************************)
(* Properties of the transitions of the lock guard (SpecGuard).            *)
(***************************************************************************)
\* C27: lock() leads to Locked from any state and changes nothing else; the
\* flag goes from Locked to Unlocked only through unlock(_bypass=True) with
\* the authorization signal present; unlock(_bypass=False) on a Locked guard
\* warns and stays Locked; an unlock that fails, update, use_once and
\* restore_from_snapshot (with or without an authorized bypass) and teardown
\* leave the flag as it is.
LockTransitions ==
    [][/\ (last'.op = "lock" /\ Lock)
            => /\ locked'
               /\ last'.res = "ok"
               /\ UNCHANGED <<config, use_once, last_snapshot, last_checksum,
                              torn_down, hooks, meta>>
       /\ (locked /\ ~locked')
            => /\ last' = Call("unlock", "ok", NoneVal)
               /\ bypass_env
               /\ Unlock(TRUE)
       /\ (locked /\ last'.op = "unlock" /\ Unlock(FALSE))
            => locked' /\ last'.res = "UserWarning"
       /\ (locked /\ bypass_env /\ last'.op = "unlock" /\ Unlock(TRUE))
            => ~locked' /\ last'.res = "ok"
       /\ (last'.op = "unlock" /\ last'.res # "ok") => UNCHANGED locked
       /\ last'.op \in {"update", "use_once", "restore_from_snapshot", "teardown"}
            => UNCHANGED locked]_vars

\* unlock without _bypass has just warned on a locked guard while the
\* authorization signal is present: the guard is still locked
WarnedAndStillLocked ==
    /\ constructed
    /\ locked
    /\ bypass_env
    /\ last = Call("unlock", "UserWarning", NoneVal)

\* C28: unlock on an Unlocked guard is a no-op: for either value of the
\* bypass flag, with the authorization signal present or absent, it raises no
\* error and the guard stays Unlocked.
UnlockWhenUnlockedIsNoOp ==
    [][\A bp \in BOOLEAN :
          (~locked /\ last'.op = "unlock" /\ Unlock(bp))
              => last'.res = "ok" /\ ~locked']_vars

(***************************************************************************)
(* Properties of the integrity check against the store (SpecBatch).        *)
(***************************************************************************)
\* C29: whenever the permanent layer differs from the snapshot the integrity
\* guard sealed last (a write that went around update_snapshot, such as a
\* batch that stopped midway), verify_integrity() returns false.
BypassOfResealDetected == (last_snapshot # Some(config)) => ~Verify

(***************************************************************************)
(* Properties of the background checker and teardown (SpecChecker).        *)
(***************************************************************************)
\* the checker thread has terminated
CheckerDone == checker = "done"

\* at every moment: the join has returned, teardown() has returned or the
\* snapshot has been discarded only if the checker has terminated, and the
\* checker has reported a violation only for a configuration that was empty
\* from the start
TeardownAfterChecker ==
    /\ teardown_pc = "joined" => CheckerDone
    /\ (torn_down /\ teardown_pc = "idle") => CheckerDone
    /\ (constructed /\ last_snapshot = None) => CheckerDone
    /\ (constructed /\ last_checksum = None) => CheckerDone
    /\ polled = Some(FALSE) => DOMAIN specs = {}

\* C30: teardown() stops and joins the background checker.  Under fair
\* scheduling the checker leaves its loop once torn_down or the stop event is
\* set, and a teardown() call that has begun returns; it returns only after
\* the checker thread has terminated, and the snapshot and the checksum are
\* discarded only after that, so every verify() of the checker reads a
\* snapshot and a checksum that have not been discarded, and the checker
\* reports no violation that teardown caused.
TeardownJoinsChecker ==
    /\ []TeardownAfterChecker
    /\ [][CheckerVerify => last_snapshot # None /\ last_checksum # None]_vars
    /\ (torn_down \/ stop_event) ~> CheckerDone
    /\ (teardown_pc # "idle") ~> (teardown_pc = "idle" /\ CheckerDone)

\* teardown() has returned after the checker, which had polled a sealed
\* snapshot and found it intact, left its loop; the snapshot is discarded
CheckerJoined ==
    /\ teardown_calls = 1
    /\ teardown_pc = "idle"
    /\ last = Call("teardown", "ok", NoneVal)
    /\ stop_event
    /\ CheckerDone
    /\ polled = Some(TRUE)
    /\ last_snapshot = None

\* the checker thread is in its loop and nothing has asked it to leave
CheckerRunning ==
    /\ checker \in {"test", "verify", "wait"}
    /\ ~torn_down
    /\ ~stop_event

OwnedByStore(layer) ==
    \A k \in DOMAIN layer : Mutable(layer[k]) => layer[k].owner = "store"

Content(v) == IF Mutable(v) THEN [type |-> v.type, items |-> v.items] ELSE v

\* the key-to-value content of a dict given as its items
ContentOf(items) ==
    [k \in {items[i][1] : i \in 1..Len(items)} |-> Content(ItemAt(items, k))]

\* C33: the checksum is a function of the key-to-value content only: two
\* mappings with the same key/value pairs have the same checksum whatever the
\* insertion order, and two mappings that differ in the value of a key, be
\* it only in its type or its container kind, have different checksums.
ChecksumTellsContent ==
    checksums # None =>
        ((ContentOf(checksums[1].left) = ContentOf(checksums[1].right))
            <=> (checksums[1].sums[1] = checksums[1].sums[2]))

(***************************************************************************)
(* Properties of teardown against calls of other threads (SpecRace).       *)
(***************************************************************************)
\* C34: in every interleaving of teardown() with update, use_once or
\* restore_from_snapshot of other threads, once teardown has returned both
\* layers of the store are empty and stay empty, and verify_integrity()
\* is false and stays false.
TornDownStaysCleared ==
    (torn_down /\ teardown_pc = "idle")
        => (config = EmptyDict /\ use_once = EmptyDict /\ ~Verify)

(***************************************************************************)
(* Properties of the checker against reseals (SpecSeal).                   *)
(***************************************************************************)
\* C35: in every interleaving of the lock-free checker with the update,
\* use_once and restore_from_snapshot calls of other threads on a non-empty
\* store, the checker never calls on_violation: no poll sees a snapshot and
\* a checksum of two different reseals.
CheckerNeverTorn == (constructed /\ DOMAIN config # {}) => reports = 0

(***************************************************************************)
(* Properties of concurrent calls on one instance (SpecThreads).           *)
(***************************************************************************)
\* the threads that got the one-time value
ServedOnce ==
    {t \in Threads : threads[t].pc = "done" /\ threads[t].op = "get"
                        /\ threads[t].ret = IntVal(500)}

\* the main thread's use_once(MAX_CONCURRENCY=500) went through and the
\* threads call nothing but get
GetsAfterUseOnce ==
    /\ last.op = "use_once" /\ last.res = "ok"
    /\ \A t \in Threads : threads[t].op \in {"", "get"}

\* every thread has called update and has returned
UpdatesDone ==
    /\ constructed
    /\ \A t \in Threads : /\ threads[t].pc = "done"
                          /\ threads[t].op = "update"
                          /\ threads[t].res = "ok"

\* the orders the threads' calls can be made in, one after the other
Orders == {o \in [Threads -> Threads] : \A i, j \in Threads : i # j => o[i] # o[j]}

RECURSIVE WriteAll(_, _)
WriteAll(cfg, batch) ==
    IF batch = <<>> THEN cfg
    ELSE WriteAll(DictSet(cfg, Head(batch)[1], Head(batch)[2]), Tail(batch))

\* the permanent layer after the threads' updates made one after the other
\* in order o, from position i on, on a freshly constructed instance
RECURSIVE InOrder(_, _, _)
InOrder(cfg, o, i) ==
    IF i > MaxThreads THEN cfg
    ELSE InOrder(WriteAll(cfg, threads[o[i]].batch), o, i + 1)

AsConstructed == [k \in DOMAIN specs |-> specs[k].default]

\* C36: of the get(K) calls that several threads make after one
\* use_once(K=v), exactly one returns v and every other returns the
\* permanent value; after concurrent update calls the permanent layer and
\* the sealed snapshot are those of some sequential order of the calls.
ConcurrentCallsSerialized ==
    /\ GetsAfterUseOnce =>
          /\ Cardinality(ServedOnce) =
                IF "MAX_CONCURRENCY" \in DOMAIN use_once THEN 0 ELSE 1
          /\ (\A t \in Threads : threads[t].pc = "done")
                => Cardinality(ServedOnce) = 1
          /\ \A t \in Threads \ ServedOnce :
                threads[t].pc = "done" =>
                    /\ threads[t].res = "ok"
                    /\ threads[t].ret = config["MAX_CONCURRENCY"]
    /\ UpdatesDone =>
          \E o \in Orders :
              LET cfg == InOrder(AsConstructed, o, 1)
              IN  /\ config = cfg
                  /\ last_snapshot = UpdateSnapshot(cfg).last_snapshot
                  /\ last_checksum = UpdateSnapshot(cfg).last_checksum

OneThreadGotOnce ==
    /\ GetsAfterUseOnce
    /\ \A t \in Threads : threads[t].pc = "done"
    /\ Cardinality(ServedOnce) = 1

(***************************************************************************)
(* Properties of a temp_update block against other threads (SpecHold).     *)
(***************************************************************************)
\* C37: a temp_update block holds the instance lock from entry until its
\* revert is through: while it is open no call of another thread takes
\* effect, so no thread reads the temporary value and the revert overwrites
\* no change of another thread.
TempUpdateHoldsLock ==
    /\ [](\A t \in Threads : threads[t].ret # TempValue)
    /\ [](temp_stack # <<>> => ~LockHeldByThread)
    /\ [][temp_stack # <<>> =>
            \A t \in Threads :
                threads[t].pc # "idle" => threads'[t] = threads[t]]_vars

ThreadWaitsForBlock ==
    /\ temp_stack # <<>>
    /\ "MAX_CONCURRENCY" \in DOMAIN config
    /\ config["MAX_CONCURRENCY"] = TempValue
    /\ \E t \in Threads : threads[t].pc = "waiting" /\ threads[t].op = "get"
    /\ \E t \in Threads : threads[t].pc = "waiting" /\ threads[t].op = "update"

(***************************************************************************)
(* Properties of hooks that call back (SpecReenter).                        *)
(***************************************************************************)
\* C38: a hook run from inside update, use_once or restore_from_snapshot
\* that calls get, snapshot or verify_integrity on the same instance gets
\* the instance lock again, and the outer call returns.
ReentrantHookReturns ==
    /\ [](outer_call # None => outer_call[1].depth \in 1..2)
    /\ (outer_call # None) ~> (outer_call = None /\ last.res = "ok")

HookInsideLock ==
    /\ outer_call # None
    /\ outer_call[1].pc = "inner"
    /\ outer_call[1].depth = 2
    /\ outer_call[1].op = "update"
    /\ Head(outer_call[1].rest) = "get"

(***************************************************************************)
(* Properties of the registry under a reader and a writer (SpecTorn).      *)
(***************************************************************************)
\* C39: while another thread runs register or clear, at every step every
\* alias the reader can see points to a canonical name whose spec is
\* present, and the reader's get returns the spec or raises
\* ConfigNotFoundError, nothing else.
ReaderNeverTorn ==
    /\ \A a \in DOMAIN aliases : aliases[a] \in DOMAIN specs
    /\ reader.res \in {"", "ok", "ConfigNotFoundError"}

(***************************************************************************)
(* Properties of the sealed snapshot between calls (SpecBatch).            *)
(***************************************************************************)
\* C40: whenever no operation is in progress on an active instance, the
\* integrity guard's last snapshot equals the permanent layer of the store,
\* after any sequence of successful and failed update, use_once and
\* restore_from_snapshot calls and temp_update blocks.
SnapshotIsPermanentLayer ==
    (Active /\ LockFree /\ ~LockHeldByBlock)
        => (last_snapshot # None /\ last_snapshot[1] = config)

====
